---- MODULE Spec2Model ----
(***************************************************************************)
(* Model of the arbitrage backend: the name normalizer and event matcher   *)
(* (app/match/matcher.py), the data model (app/schema/models.py) and the   *)
(* arbitrage engine (app/engine/arbitrage.py).                             *)
(*                                                                         *)
(* Strings are sequences of one-character strings, so that the regular     *)
(* expressions, substring tests and the similarity ratio are computed on   *)
(* characters as the code computes them.  Instants are seconds, odds are   *)
(* thousandths (the validators round odds to 3 decimals), lines are        *)
(* tenths, percentages are units of 0.0001 (the code rounds them to 4      *)
(* decimals), the freshness score is in units of 0.001.  An Optional       *)
(* value is a sequence of length 0 (None) or 1.  A Python dict is a        *)
(* sequence of entries in insertion order.                                 *)
(***************************************************************************)
EXTENDS Integers, Sequences, FiniteSets, TLC

VARIABLES
    all_odds,        \* the batch of RawOddsData handed to match_events
    pc,              \* position of the detection cycle
    matched_events,  \* the list match_events returned
    arbitrages,      \* the list detect_arbitrages returned
    filters,         \* the ArbitrageFilters of the detect_arbitrages call
    now,             \* datetime.now() read by the detect_arbitrages call
    name,            \* the string the normalizer is applied to
    kind,            \* which normalizer produced name
    cached_arbitrages,  \* ArbitrageOrchestrator.cached_arbitrages
    last_scrape_time,   \* ArbitrageOrchestrator.last_scrape_time, None as <<>>
    requests         \* the calls of get_cached_arbitrages: position, filters, response

cache == <<cached_arbitrages, last_scrape_time, requests>>

vars == <<all_odds, pc, matched_events, arbitrages, filters, now, name, kind,
          cached_arbitrages, last_scrape_time, requests>>

----------------------------------------------------------------------------
(* Characters and strings                                                  *)

UpperCase == <<"A","B","C","D","E","F","G","H","I","J","K","L","M",
               "N","O","P","Q","R","S","T","U","V","W","X","Y","Z">>
LowerCase == <<"a","b","c","d","e","f","g","h","i","j","k","l","m",
               "n","o","p","q","r","s","t","u","v","w","x","y","z">>
Digits == {"0","1","2","3","4","5","6","7","8","9"}

Range(s) == {s[i] : i \in DOMAIN s}

LowerOf == [c \in Range(UpperCase) |->
                LowerCase[CHOOSE i \in DOMAIN UpperCase : UpperCase[i] = c]]

\* str.lower() on one character
LowerChar(c) == IF c \in DOMAIN LowerOf THEN LowerOf[c] ELSE c

\* str.lower()
Lower(s) == [i \in DOMAIN s |-> LowerChar(s[i])] \o <<>>

\* the regular expression classes \s and \w
IsSpace(c) == c = " "
WordChars == Range(UpperCase) \cup Range(LowerCase) \cup Digits \cup {"_"}
IsWord(c) == c \in WordChars

RECURSIVE LStrip(_)
LStrip(s) == IF s # <<>> /\ IsSpace(Head(s)) THEN LStrip(Tail(s)) ELSE s

RECURSIVE RStrip(_)
RStrip(s) ==
    IF s # <<>> /\ IsSpace(s[Len(s)]) THEN RStrip(SubSeq(s, 1, Len(s) - 1)) ELSE s

\* str.strip()
Strip(s) == RStrip(LStrip(s))

Min(S) == CHOOSE x \in S : \A y \in S : x <= y

\* whether p occurs in s at position i
OccursAt(s, p, i) ==
    /\ i >= 1
    /\ i + Len(p) - 1 <= Len(s)
    /\ \A k \in 1..Len(p) : s[i + k - 1] = p[k]

\* p in s
Contains(s, p) == \E i \in 1..(Len(s) + 1) : OccursAt(s, p, i)

\* str.find(), 1-based
IndexOf(s, p) == Min({i \in 1..(Len(s) + 1) : OccursAt(s, p, i)})

\* whether s starts / ends with p, ignoring case
StartsWithCI(s, p) ==
    Len(s) >= Len(p) /\ \A k \in 1..Len(p) : LowerChar(s[k]) = LowerChar(p[k])
EndsWithCI(s, p) ==
    Len(s) >= Len(p) /\ \A k \in 1..Len(p) : LowerChar(s[Len(s) - Len(p) + k]) = LowerChar(p[k])

----------------------------------------------------------------------------
(* Normalizer: EventMatcher._normalize_team_name, _normalize_event_name    *)

\* normalization_map.json is not part of the sources: _load_normalization_map
\* falls back to {} and every lookup misses
normalization_map_teams == <<>>
normalization_map_esports_teams == <<>>

\* the alternation (FC|AC|AS|SC|CF|United|City), in the order of the pattern
OrgTokens == << <<"F","C">>, <<"A","C">>, <<"A","S">>, <<"S","C">>, <<"C","F">>,
                <<"U","n","i","t","e","d">>, <<"C","i","t","y">> >>

\* re.sub(r'^(FC|AC|AS|SC|CF|United|City)\s+', '', team, flags=re.IGNORECASE)
StripOrgPrefix(team) ==
    LET hits == {i \in DOMAIN OrgTokens :
                    /\ StartsWithCI(team, OrgTokens[i])
                    /\ Len(team) > Len(OrgTokens[i])
                    /\ IsSpace(team[Len(OrgTokens[i]) + 1])}
    IN  IF hits = {} THEN team
        ELSE LStrip(SubSeq(team, Len(OrgTokens[Min(hits)]) + 1, Len(team)))

\* re.sub(r'\s+(FC|AC|AS|SC|CF|United|City)$', '', team, flags=re.IGNORECASE)
StripOrgSuffix(team) ==
    LET hits == {i \in DOMAIN OrgTokens :
                    /\ EndsWithCI(team, OrgTokens[i])
                    /\ Len(team) > Len(OrgTokens[i])
                    /\ IsSpace(team[Len(team) - Len(OrgTokens[i])])}
    IN  IF hits = {} THEN team
        ELSE RStrip(SubSeq(team, 1, Len(team) - Len(OrgTokens[Min(hits)])))

\* re.sub(r'[^\w\s]', ' ', team)
ReplacePunctuation(team) ==
    [i \in DOMAIN team |-> IF IsWord(team[i]) \/ IsSpace(team[i]) THEN team[i] ELSE " "]
        \o <<>>

\* re.sub(r'\s+', ' ', team)
RECURSIVE CollapseSpaces(_)
CollapseSpaces(s) ==
    IF s = <<>> THEN <<>>
    ELSE IF IsSpace(Head(s)) THEN <<" ">> \o CollapseSpaces(LStrip(s))
    ELSE <<Head(s)>> \o CollapseSpaces(Tail(s))

_normalize_team_name(team_name) ==
    LET team == Strip(team_name)
    IN  IF team \in DOMAIN normalization_map_teams
        THEN normalization_map_teams[team]
        ELSE IF team \in DOMAIN normalization_map_esports_teams
        THEN normalization_map_esports_teams[team]
        ELSE Strip(CollapseSpaces(ReplacePunctuation(StripOrgSuffix(StripOrgPrefix(team)))))

\* separators = [' vs ', ' v ', ' - ', ' – ', ' — ', ' x ']
separators == << <<" ","v","s"," ">>, <<" ","v"," ">>, <<" ","-"," ">>,
                 <<" ","endash"," ">>, <<" ","emdash"," ">>, <<" ","x"," ">> >>

_normalize_event_name(event_name) ==
    IF event_name = <<>> THEN event_name
    ELSE
        LET found == {i \in DOMAIN separators : Contains(event_name, separators[i])}
        IN  IF found = {} THEN Strip(event_name)
            ELSE
                LET sep == separators[Min(found)]
                    at == IndexOf(event_name, sep)
                    left == SubSeq(event_name, 1, at - 1)
                    right == SubSeq(event_name, at + Len(sep), Len(event_name))
                IN  _normalize_team_name(Strip(left)) \o <<" ","v","s"," ">>
                        \o _normalize_team_name(Strip(right))

----------------------------------------------------------------------------
(* Configuration: app/config.py                                             *)

fuzzy_threshold == 94
time_tolerance_minutes == 15
time_tolerance == time_tolerance_minutes * 60
min_arb_percentage == 5000            \* 0.5 percent, in units of 0.0001
default_bankroll == 1000
live_odds_max_age == 10
prematch_odds_max_age == 300

----------------------------------------------------------------------------
(* Similarity: rapidfuzz fuzz.ratio = 100 * 2 * LCS(a, b) / (|a| + |b|)     *)

RECURSIVE LcsRow(_, _, _, _, _)
\* prev and acc hold columns 0..Len(b) of two consecutive rows at 1..Len(b)+1
LcsRow(prev, c, b, j, acc) ==
    IF j > Len(b) THEN acc
    ELSE LET v == IF c = b[j] THEN prev[j] + 1
                  ELSE IF prev[j + 1] >= acc[j] THEN prev[j + 1] ELSE acc[j]
         IN  LcsRow(prev, c, b, j + 1, Append(acc, v))

RECURSIVE LcsTable(_, _, _, _)
\* each row is bound to its value before the next one is computed from it
LcsTable(a, b, i, prev) ==
    IF i > Len(a) THEN prev[Len(b) + 1]
    ELSE CHOOSE n \in {LcsTable(a, b, i + 1, row) :
                          row \in {LcsRow(prev, a[i], b, 1, <<0>>)}} : TRUE

LcsLength(a, b) == LcsTable(a, b, 1, [j \in 1..(Len(b) + 1) |-> 0])

\* fuzz.ratio(a, b) >= threshold, cross-multiplied so that it is exact
RatioAtLeast(a, b, threshold) ==
    200 * LcsLength(a, b) >= threshold * (Len(a) + Len(b))

----------------------------------------------------------------------------
(* Dicts in insertion order                                                *)

HasKey(d, k) == \E i \in DOMAIN d : d[i].key = k
Lookup(d, k) == d[CHOOSE i \in DOMAIN d : d[i].key = k].items
Keys(d) == [i \in DOMAIN d |-> d[i].key]

\* d[k].append(v) on a defaultdict(list)
DictAppend(d, k, v) ==
    IF HasKey(d, k)
    THEN [i \in DOMAIN d |-> IF d[i].key = k
                             THEN [d[i] EXCEPT !.items = Append(@, v)] ELSE d[i]]
    ELSE Append(d, [key |-> k, items |-> <<v>>])

RECURSIVE Concat(_)
Concat(ss) == IF ss = <<>> THEN <<>> ELSE Head(ss) \o Concat(Tail(ss))

----------------------------------------------------------------------------
(* Event matcher: app/match/matcher.py                                     *)

\* normalization_map "markets", "esports_markets", "leagues": every lookup misses
_normalize_market_name(market_name) ==
    IF market_name = <<>> THEN market_name ELSE Strip(market_name)

\* a league is the sequence of its "_"-separated pieces, none with blanks
_normalize_league_name(league_name) == league_name

NormalizeOdds(odds_data) ==
    [odds_data EXCEPT
        !.event_name = _normalize_event_name(odds_data.event_name),
        !.market_name = _normalize_market_name(odds_data.market_name),
        !.league = IF odds_data.league # <<>>
                   THEN _normalize_league_name(odds_data.league) ELSE <<>>]

_normalize_odds_data(odds) == [i \in DOMAIN odds |-> NormalizeOdds(odds[i])]

\* group_key = f"{sport}_{league}", as the sequence of its "_"-separated pieces
GroupKey(odds_data) ==
    (IF odds_data.sport # <<>> THEN odds_data.sport ELSE <<"unknown">>)
        \o (IF odds_data.league # <<>> THEN odds_data.league ELSE <<"unknown">>)

RECURSIVE GroupFrom(_, _, _)
GroupFrom(odds, i, groups) ==
    IF i > Len(odds) THEN groups
    ELSE GroupFrom(odds, i + 1, DictAppend(groups, GroupKey(odds[i]), odds[i]))

_group_odds_by_sport_league(odds) == GroupFrom(odds, 1, <<>>)

RECURSIVE ClusterFrom(_, _, _)
ClusterFrom(odds, i, clusters) ==
    IF i > Len(odds) THEN clusters
    ELSE ClusterFrom(odds, i + 1, DictAppend(clusters, odds[i].event_name, odds[i]))

\* event_clusters of _match_events_in_group
EventClusters(odds_group) == ClusterFrom(odds_group, 1, <<>>)

IsSimilar(target_name, other) ==
    RatioAtLeast(Lower(target_name), Lower(other), fuzzy_threshold)

\* a variant that finds no other name similar
OnlyTargetName(target_name, all_names) == <<target_name>>

_find_similar_names(target_name, all_names) ==
    <<target_name>> \o
        SelectSeq(all_names, LAMBDA n : n # target_name /\ IsSimilar(target_name, n))

StartTimes(odds_group) ==
    {odds_group[i].start_time[1] :
        i \in {j \in DOMAIN odds_group : odds_group[j].start_time # <<>>}}

_validate_time_compatibility(odds_group1, odds_group2) ==
    LET times1 == StartTimes(odds_group1)
        times2 == StartTimes(odds_group2)
    IN  IF times1 = {} \/ times2 = {} THEN TRUE
        ELSE \E time1 \in times1, time2 \in times2 :
                /\ time1 - time2 <= time_tolerance
                /\ time2 - time1 <= time_tolerance

\* the inner loop of _find_similar_event_groups, over similar_names
RECURSIVE CombineSimilar(_, _, _, _, _, _)
CombineSimilar(event_name, similar_names, k, event_clusters, processed_names, combined_odds) ==
    IF k > Len(similar_names)
    THEN [processed |-> processed_names, combined |-> combined_odds]
    ELSE
        LET similar_name == similar_names[k]
            take == /\ similar_name \notin processed_names
                    /\ _validate_time_compatibility(Lookup(event_clusters, event_name),
                                                    Lookup(event_clusters, similar_name))
        IN  IF take
            THEN CombineSimilar(event_name, similar_names, k + 1, event_clusters,
                                processed_names \cup {similar_name},
                                combined_odds \o Lookup(event_clusters, similar_name))
            ELSE CombineSimilar(event_name, similar_names, k + 1, event_clusters,
                                processed_names, combined_odds)

\* the outer loop of _find_similar_event_groups, over event_names
RECURSIVE FindGroupsFrom(_, _, _, _, _)
FindGroupsFrom(event_names, i, event_clusters, processed_names, matched_groups) ==
    IF i > Len(event_names) THEN matched_groups
    ELSE IF event_names[i] \in processed_names
    THEN FindGroupsFrom(event_names, i + 1, event_clusters, processed_names, matched_groups)
    ELSE
        LET r == CombineSimilar(event_names[i],
                                _find_similar_names(event_names[i], event_names),
                                1, event_clusters, processed_names, <<>>)
        IN  FindGroupsFrom(event_names, i + 1, event_clusters, r.processed,
                           IF r.combined # <<>> THEN Append(matched_groups, r.combined)
                           ELSE matched_groups)

\* a variant that forgets processed_names: every name seeds a cluster
GroupsOfEveryName(event_names, event_clusters) ==
    [i \in DOMAIN event_names |->
        CombineSimilar(event_names[i], _find_similar_names(event_names[i], event_names),
                       1, event_clusters, {}, <<>>).combined]

_find_similar_event_groups(event_names, event_clusters) ==
    FindGroupsFrom(event_names, 1, event_clusters, {}, <<>>)

\* the most frequent value of a non-empty list, the first one on a tie
\* (max over the keys of a count dict filled in list order)
MostCommon(values) ==
    LET count(v) == Cardinality({i \in DOMAIN values : values[i] = v})
    IN  values[Min({i \in DOMAIN values :
                        \A j \in DOMAIN values : count(values[j]) <= count(values[i])})]

_get_canonical_event_name(odds_group) ==
    MostCommon([i \in DOMAIN odds_group |-> odds_group[i].event_name])

\* sorted(times)[len(times) // 2], None without times
_get_representative_start_time(odds_group) ==
    LET known == SelectSeq(odds_group, LAMBDA o : o.start_time # <<>>)
        mid == Len(known) \div 2
        below(v) == Cardinality({i \in DOMAIN known : known[i].start_time[1] < v})
        upto(v) == Cardinality({i \in DOMAIN known : known[i].start_time[1] <= v})
    IN  IF known = <<>> THEN <<>>
        ELSE <<CHOOSE v \in StartTimes(odds_group) : below(v) <= mid /\ mid < upto(v)>>

\* the values of the SportType enum
SportType == {"football", "basketball", "tennis", "cricket", "baseball", "hockey",
              "esports", "pubg", "csgo", "dota2", "valorant", "lol", "cod"}

\* a sport is the sequence of its "_"-separated pieces, in lower case; no value
\* of SportType holds a "_"
_get_representative_sport(odds_group) ==
    LET sports == SelectSeq([i \in DOMAIN odds_group |-> odds_group[i].sport],
                            LAMBDA x : x # <<>>)
    IN  IF sports = <<>> THEN <<>>
        ELSE LET most_common_sport == MostCommon(sports)
             IN  IF Len(most_common_sport) = 1 /\ most_common_sport[1] \in SportType
                 THEN most_common_sport ELSE <<>>

_get_representative_league(odds_group) ==
    LET leagues == SelectSeq([i \in DOMAIN odds_group |-> odds_group[i].league],
                             LAMBDA x : x # <<>>)
    IN  IF leagues = <<>> THEN <<>> ELSE MostCommon(leagues)

\* market_mapping of _determine_market_type, in the order of the dict
market_mapping == <<
    [key |-> <<"m","o","n","e","y","l","i","n","e">>, market_type |-> "moneyline"],
    [key |-> <<"w","i","n","n","e","r">>, market_type |-> "moneyline"],
    [key |-> <<"m","a","t","c","h"," ","w","i","n","n","e","r">>, market_type |-> "moneyline"],
    [key |-> <<"1","x","2">>, market_type |-> "1x2"],
    [key |-> <<"m","a","t","c","h"," ","r","e","s","u","l","t">>, market_type |-> "1x2"],
    [key |-> <<"f","u","l","l"," ","t","i","m","e"," ","r","e","s","u","l","t">>, market_type |-> "1x2"],
    [key |-> <<"d","o","u","b","l","e"," ","c","h","a","n","c","e">>, market_type |-> "double_chance"],
    [key |-> <<"t","o","t","a","l","s">>, market_type |-> "totals"],
    [key |-> <<"t","o","t","a","l">>, market_type |-> "totals"],
    [key |-> <<"o","v","e","r","/","u","n","d","e","r">>, market_type |-> "totals"],
    [key |-> <<"o","/","u">>, market_type |-> "totals"],
    [key |-> <<"h","a","n","d","i","c","a","p">>, market_type |-> "handicap"],
    [key |-> <<"s","p","r","e","a","d">>, market_type |-> "handicap"],
    [key |-> <<"a","s","i","a","n"," ","h","a","n","d","i","c","a","p">>, market_type |-> "handicap"],
    [key |-> <<"e","u","r","o","p","e","a","n"," ","h","a","n","d","i","c","a","p">>, market_type |-> "handicap"],
    [key |-> <<"t","e","a","m"," ","t","o","t","a","l","s">>, market_type |-> "team_totals"],
    [key |-> <<"t","e","a","m"," ","t","o","t","a","l">>, market_type |-> "team_totals"],
    [key |-> <<"p","l","a","y","e","r"," ","p","r","o","p","s">>, market_type |-> "player_props"],
    [key |-> <<"m","a","p"," ","w","i","n","n","e","r">>, market_type |-> "map_winner"],
    [key |-> <<"t","o","t","a","l"," ","m","a","p","s">>, market_type |-> "total_maps"],
    [key |-> <<"r","o","u","n","d"," ","h","a","n","d","i","c","a","p">>, market_type |-> "round_handicap"],
    [key |-> <<"f","i","r","s","t"," ","b","l","o","o","d">>, market_type |-> "first_blood"],
    [key |-> <<"k","i","l","l","s"," ","o","v","e","r","/","u","n","d","e","r">>, market_type |-> "kills_over_under"],
    [key |-> <<"t","o","t","a","l"," ","k","i","l","l","s">>, market_type |-> "kills_over_under"] >>

_determine_market_type(market_name) ==
    IF market_name = <<>> THEN "moneyline"
    ELSE
        LET market_lower == Lower(market_name)
            hits == {i \in DOMAIN market_mapping :
                        Contains(market_lower, market_mapping[i].key)}
        IN  IF hits = {} THEN "moneyline" ELSE market_mapping[Min(hits)].market_type

\* OutcomeData(...): Field(gt=1.0) and validate_odds raise outside [1.01, 1000]
OutcomeDataValid(odds_data) == odds_data.odds >= 1010 /\ odds_data.odds <= 1000000

OutcomeData(odds_data) ==
    [name |-> Strip(odds_data.outcome_name), odds |-> odds_data.odds,
     bookmaker |-> odds_data.bookmaker, last_seen |-> odds_data.scraped_at]

\* NormalizedMarket.add_outcome
\* a variant in which the last observation always overwrites
AddOutcomeLastWins(market, outcome) ==
    IF \E i \in DOMAIN market.outcomes : market.outcomes[i].name = outcome.name
    THEN [market EXCEPT !.outcomes =
            [i \in DOMAIN market.outcomes |->
                IF market.outcomes[i].name = outcome.name THEN outcome
                ELSE market.outcomes[i]]]
    ELSE [market EXCEPT !.outcomes = Append(@, outcome)]

\* a variant that never overwrites an outcome it holds
AddOutcomeKeepsFirst(market, outcome) ==
    IF \E i \in DOMAIN market.outcomes : market.outcomes[i].name = outcome.name
    THEN market
    ELSE [market EXCEPT !.outcomes = Append(@, outcome)]

add_outcome(market, outcome) ==
    LET at == {i \in DOMAIN market.outcomes : market.outcomes[i].name = outcome.name}
    IN  IF at = {} THEN [market EXCEPT !.outcomes = Append(@, outcome)]
        ELSE IF outcome.last_seen > market.outcomes[Min(at)].last_seen
        THEN [market EXCEPT !.outcomes[Min(at)] = outcome]
        ELSE market

\* MatchedEvent.get_market_key: f"{market_type.value}_{line}", or the type alone
get_market_key(market_type, line) == <<market_type, line>>

\* MatchedEvent.add_market_outcome
add_market_outcome(markets, market_type, line, outcome) ==
    LET market_key == get_market_key(market_type, line)
        at == {i \in DOMAIN markets : markets[i].key = market_key}
    IN  IF at = {}
        THEN Append(markets, add_outcome([key |-> market_key, market_type |-> market_type,
                                          line |-> line, outcomes |-> <<>>], outcome))
        ELSE [markets EXCEPT ![Min(at)] = add_outcome(@, outcome)]

RECURSIVE AddAllOdds(_, _, _)
AddAllOdds(odds_group, i, markets) ==
    IF i > Len(odds_group) THEN markets
    ELSE AddAllOdds(odds_group, i + 1,
                    add_market_outcome(markets,
                                       _determine_market_type(odds_group[i].market_name),
                                       odds_group[i].line, OutcomeData(odds_group[i])))

\* None (<<>>) when the group is empty or building an OutcomeData raises
_merge_event_group(odds_group) ==
    IF odds_group = <<>> THEN <<>>
    ELSE IF \E i \in DOMAIN odds_group : ~OutcomeDataValid(odds_group[i]) THEN <<>>
    ELSE << [event |-> [canonical_name |-> _get_canonical_event_name(odds_group),
                        start_time |-> _get_representative_start_time(odds_group),
                        sport |-> _get_representative_sport(odds_group),
                        league |-> _get_representative_league(odds_group),
                        is_live |-> \E i \in DOMAIN odds_group : odds_group[i].is_live],
             markets |-> AddAllOdds(odds_group, 1, <<>>)] >>

\* matched_groups of _match_events_in_group
MatchedGroups(odds_group) ==
    LET event_clusters == EventClusters(odds_group)
    IN  _find_similar_event_groups(Keys(event_clusters), event_clusters)

_match_events_in_group(odds_group) ==
    LET matched_groups == MatchedGroups(odds_group)
    IN  Concat([g \in DOMAIN matched_groups |-> _merge_event_group(matched_groups[g])])

\* bookmakers_with_odds of _filter_by_bookmaker_coverage
BookmakersWithOdds(event) ==
    UNION {{event.markets[m].outcomes[o].bookmaker : o \in DOMAIN event.markets[m].outcomes} :
              m \in DOMAIN event.markets}

\* a variant that keeps every event
KeepAllEvents(events) == events

_filter_by_bookmaker_coverage(events) ==
    SelectSeq(events, LAMBDA event : Cardinality(BookmakersWithOdds(event)) >= 2)

\* the matched events of all groups, before the coverage filter
MergedEvents(odds) ==
    LET grouped_odds == _group_odds_by_sport_league(_normalize_odds_data(odds))
    IN  Concat([g \in DOMAIN grouped_odds |-> _match_events_in_group(grouped_odds[g].items)])

match_events(odds) == _filter_by_bookmaker_coverage(MergedEvents(odds))

----------------------------------------------------------------------------
(* Exact arithmetic for the engine's floating-point formulas               *)

RECURSIVE Gcd(_, _)
Gcd(a, b) == IF b = 0 THEN a ELSE Gcd(b, a % b)

\* the fraction n/d in lowest terms
Frac(n, d) == [n |-> n \div Gcd(n, d), d |-> d \div Gcd(n, d)]

FracAdd(x, y) == Frac(x.n * y.d + y.n * x.d, x.d * y.d)

\* a variant that truncates instead of rounding
TruncDiv(a, b) == a \div b

\* round(a / b) for a >= 0, b > 0: to the nearest integer, a tie to the even one
RoundDiv(a, b) ==
    LET q == a \div b
        r == a % b
    IN  IF 2 * r > b \/ (2 * r = b /\ q % 2 = 1) THEN q + 1 ELSE q

\* 1.0 / outcome.odds, odds in thousandths
ImpliedProbability(outcome) == Frac(1000, outcome.odds)

RECURSIVE SumImplied(_)
\* sum(implied_probabilities) over a list of legs
SumImplied(legs) ==
    IF legs = <<>> THEN Frac(0, 1)
    ELSE FracAdd(ImpliedProbability(Head(legs)), SumImplied(Tail(legs)))

----------------------------------------------------------------------------
(* Arbitrage engine: app/engine/arbitrage.py                               *)

\* filters is None
NoFilters ==
    [present |-> FALSE, sport |-> <<>>, market_type |-> <<>>, min_arb_percentage |-> <<>>,
     min_profit |-> <<>>, bookmakers |-> <<>>, live_only |-> <<>>,
     max_start_hours |-> <<>>, bankroll |-> <<>>]

_passes_event_filters(event, f, t) ==
    IF ~f.present THEN TRUE
    ELSE IF f.sport # <<>> /\ event.event.sport # f.sport THEN FALSE
    ELSE IF f.live_only # <<>> /\ f.live_only[1] # event.event.is_live THEN FALSE
    ELSE IF /\ f.max_start_hours # <<>>
            /\ f.max_start_hours[1] # 0
            /\ event.event.start_time # <<>>
            /\ event.event.start_time[1] > t + f.max_start_hours[1] * 3600
    THEN FALSE
    ELSE TRUE

\* a variant that applies the pre-match threshold to every event
FreshByPrematchAge(outcomes, is_live, t) ==
    SelectSeq(outcomes, LAMBDA outcome : outcome.last_seen >= t - prematch_odds_max_age)

_get_fresh_outcomes(outcomes, is_live, t) ==
    LET max_age_seconds == IF is_live THEN live_odds_max_age ELSE prematch_odds_max_age
        cutoff_time == t - max_age_seconds
    IN  SelectSeq(outcomes, LAMBDA outcome : outcome.last_seen >= cutoff_time)

RECURSIVE OutcomeGroupsFrom(_, _, _)
\* outcome_groups of _get_best_odds_per_outcome: the dict is keyed by outcome name
OutcomeGroupsFrom(outcomes, i, groups) ==
    IF i > Len(outcomes) THEN groups
    ELSE OutcomeGroupsFrom(outcomes, i + 1, DictAppend(groups, outcomes[i].name, outcomes[i]))

\* max(available_outcomes, key=lambda x: x.odds): the first of the highest odds
MaxByOdds(available_outcomes) ==
    available_outcomes[Min({i \in DOMAIN available_outcomes :
        \A j \in DOMAIN available_outcomes :
            available_outcomes[j].odds <= available_outcomes[i].odds})]

\* a variant that forgets used_bookmakers
AvailableAnyBookmaker(outcome_list, used_bookmakers) == outcome_list

\* o.bookmaker not in used_bookmakers
Available(outcome_list, used_bookmakers) ==
    SelectSeq(outcome_list, LAMBDA o : o.bookmaker \notin used_bookmakers)

RECURSIVE BestOddsFrom(_, _, _, _, _)
\* the loop of _get_best_odds_per_outcome over outcome_groups
BestOddsFrom(outcome_groups, i, f, best_odds, used_bookmakers) ==
    IF i > Len(outcome_groups) THEN best_odds
    ELSE
        LET outcome_list ==
                IF f.present /\ f.bookmakers # <<>>
                THEN SelectSeq(outcome_groups[i].items,
                               LAMBDA o : o.bookmaker \in Range(f.bookmakers))
                ELSE outcome_groups[i].items
            available_outcomes == Available(outcome_list, used_bookmakers)
        IN  IF available_outcomes # <<>>
            THEN BestOddsFrom(outcome_groups, i + 1, f,
                              Append(best_odds, MaxByOdds(available_outcomes)),
                              used_bookmakers \cup {MaxByOdds(available_outcomes).bookmaker})
            ELSE BestOddsFrom(outcome_groups, i + 1, f, best_odds, used_bookmakers)

\* the values of best_odds, in the order of the dict
_get_best_odds_per_outcome(outcomes, f) ==
    BestOddsFrom(OutcomeGroupsFrom(outcomes, 1, <<>>), 1, f, <<>>, {})

\* a variant whose loop misses the first leg
TotalImpliedProbSkippingFirst(best_odds) == SumImplied(Tail(best_odds))

\* total_implied_prob of _calculate_arbitrage
TotalImpliedProb(best_odds) == SumImplied(best_odds)

\* None (<<>>), or <<arb_percentage, profit_percentage>> rounded to 4 decimals
_calculate_arbitrage(best_odds) ==
    IF Len(best_odds) < 2 THEN <<>>
    ELSE IF \E i \in DOMAIN best_odds : best_odds[i].odds <= 1000 THEN <<>>
    ELSE
        LET total_implied_prob == TotalImpliedProb(best_odds)
        IN  IF total_implied_prob.n >= total_implied_prob.d THEN <<>>
            ELSE << RoundDiv(total_implied_prob.n * 1000000, total_implied_prob.d),
                    RoundDiv((total_implied_prob.d - total_implied_prob.n) * 1000000,
                             total_implied_prob.n) >>

\* a variant without the minimum on profit_percentage
PassesWithoutMinimum(arb_percentage, profit_percentage, f) == arb_percentage < 1000000

_passes_arbitrage_filters(arb_percentage, profit_percentage, f) ==
    IF ~f.present
    THEN arb_percentage < 1000000 /\ profit_percentage >= min_arb_percentage
    ELSE IF f.min_arb_percentage # <<>> /\ profit_percentage < f.min_arb_percentage[1]
    THEN FALSE
    ELSE IF f.min_arb_percentage = <<>> /\ profit_percentage < min_arb_percentage
    THEN FALSE
    ELSE arb_percentage < 1000000

\* round(max(0.0, 1.0 - avg_age_seconds / 300), 3), in thousandths
_calculate_freshness_score(outcomes, t) ==
    LET RECURSIVE TotalAge(_)
        TotalAge(os) == IF os = <<>> THEN 0 ELSE (t - Head(os).last_seen) + TotalAge(Tail(os))
        total_age == TotalAge(outcomes)
        count == Len(outcomes)
    IN  IF outcomes = <<>> THEN 0
        ELSE IF total_age >= 300 * count THEN 0
        ELSE RoundDiv(1000 * (300 * count - total_age), 300 * count)

\* filters.bankroll if filters and filters.bankroll else self.default_bankroll
Bankroll(f) ==
    IF f.present /\ f.bankroll # <<>> /\ f.bankroll[1] # 0 THEN f.bankroll[1]
    ELSE default_bankroll

\* a variant that does not divide by total_inverse
StakeShareOfOddsOnly(outcome, best_odds) == ImpliedProbability(outcome)

\* stake_proportion = (1.0 / outcome.odds) / total_inverse, in lowest terms
StakeProportion(outcome, best_odds) ==
    LET implied == ImpliedProbability(outcome)
        total_inverse == SumImplied(best_odds)
    IN  Frac(implied.n * total_inverse.d, implied.d * total_inverse.n)

\* a variant that does not subtract the bankroll from the return
PotentialReturnOnly(outcome, best_odds, bankroll) ==
    LET share == StakeProportion(outcome, best_odds)
        ret == Frac(share.n * outcome.odds, share.d * 1000)
    IN  RoundDiv(100 * bankroll * ret.n, ret.d)

\* potential_profit = stake_amount * outcome.odds - bankroll, rounded to 2
\* decimals, in hundredths: the stake is not rounded before it is multiplied
PotentialProfit(outcome, best_odds, bankroll) ==
    LET share == StakeProportion(outcome, best_odds)
        ret == Frac(share.n * outcome.odds, share.d * 1000)
        gain == 100 * bankroll * (ret.n - ret.d)
    IN  IF gain >= 0 THEN RoundDiv(gain, ret.d) ELSE -RoundDiv(-gain, ret.d)

\* the StakeCalculation list, one entry per item of best_odds; names are the
\* keys of the dict, amounts are in hundredths
_calculate_stakes(names, best_odds, bankroll) ==
    [i \in DOMAIN best_odds |->
        [outcome_name |-> names[i],
         bookmaker |-> best_odds[i].bookmaker,
         stake_amount |->
            RoundDiv(100 * bankroll * StakeProportion(best_odds[i], best_odds).n,
                     StakeProportion(best_odds[i], best_odds).d),
         potential_profit |-> PotentialProfit(best_odds[i], best_odds, bankroll)]]

\* a variant without the bounds on freshness_score
AnyScoreValid(arb) == TRUE

\* ArbitrageOpportunity(...): Field(ge=0, le=1) on freshness_score raises outside
OpportunityValid(arb) == arb.freshness_score >= 0 /\ arb.freshness_score <= 1000

\* the record built by _detect_market_arbitrages and _calculate_middle_opportunity;
\* guaranteed_profit is in hundredths (validate_profit rounds it to 2 decimals)
Opportunity(event, market_type, line, names, legs, arb_calc, f, t) ==
    [event_name |-> event.event.canonical_name,
     start_time |-> event.event.start_time,
     sport |-> event.event.sport,
     league |-> event.event.league,
     market_type |-> market_type,
     line |-> line,
     outcomes |-> legs,
     arb_percentage |-> arb_calc[1],
     profit_percentage |-> arb_calc[2],
     guaranteed_profit |-> RoundDiv(Bankroll(f) * arb_calc[2], 10000),
     bankroll |-> Bankroll(f),
     stakes |-> _calculate_stakes(names, legs, Bankroll(f)),
     freshness_score |-> _calculate_freshness_score(legs, t)]

\* whether building the ArbitrageOpportunity of a market raises, which the
\* except clause of _detect_market_arbitrages catches
RaisesInMarket(event, market, f, t) ==
    LET fresh_outcomes == _get_fresh_outcomes(market.outcomes, event.event.is_live, t)
        best_odds == _get_best_odds_per_outcome(fresh_outcomes, f)
        arb_calc == _calculate_arbitrage(best_odds)
    IN  /\ ~(f.present /\ f.market_type # <<>> /\ market.market_type # f.market_type[1])
        /\ Len(fresh_outcomes) >= 2
        /\ Len(best_odds) >= 2
        /\ arb_calc # <<>>
        /\ _passes_arbitrage_filters(arb_calc[1], arb_calc[2], f)
        /\ ~(/\ f.present /\ f.min_profit # <<>> /\ f.min_profit[1] # 0
              /\ Bankroll(f) * arb_calc[2] < f.min_profit[1] * 1000000)
        /\ (_calculate_freshness_score(best_odds, t) < 0
                \/ _calculate_freshness_score(best_odds, t) > 1000)

\* the list of 0 or 1 opportunities of one market
_detect_market_arbitrages(event, market, f, t) ==
    IF f.present /\ f.market_type # <<>> /\ market.market_type # f.market_type[1] THEN <<>>
    ELSE
        LET fresh_outcomes == _get_fresh_outcomes(market.outcomes, event.event.is_live, t)
            best_odds == _get_best_odds_per_outcome(fresh_outcomes, f)
            arb_calc == _calculate_arbitrage(best_odds)
            arb == Opportunity(event, <<market.market_type>>, market.line,
                               [i \in DOMAIN best_odds |-> best_odds[i].name],
                               best_odds, arb_calc, f, t)
        IN  IF Len(fresh_outcomes) < 2 THEN <<>>
            ELSE IF Len(best_odds) < 2 THEN <<>>
            ELSE IF arb_calc = <<>> THEN <<>>
            ELSE IF ~_passes_arbitrage_filters(arb_calc[1], arb_calc[2], f) THEN <<>>
            ELSE IF /\ f.present /\ f.min_profit # <<>> /\ f.min_profit[1] # 0
                    /\ Bankroll(f) * arb_calc[2] < f.min_profit[1] * 1000000
            THEN <<>>
            ELSE IF ~OpportunityValid(arb) THEN <<>>
            ELSE <<arb>>

\* the first outcome of a market whose lower-cased name holds the word, as a
\* list of 0 or 1 outcomes (the for ... break loops of _calculate_middle_opportunity)
FirstNamed(market, word) ==
    LET hits == {i \in DOMAIN market.outcomes : Contains(Lower(market.outcomes[i].name), word)}
    IN  IF hits = {} THEN <<>> ELSE <<market.outcomes[Min(hits)]>>

RECURSIVE DigitsOf(_)
\* str(n) for a natural number n
DigitsOf(n) ==
    LET digit == <<"0","1","2","3","4","5","6","7","8","9">>
    IN  IF n < 10 THEN <<digit[n + 1]>> ELSE DigitsOf(n \div 10) \o <<digit[(n % 10) + 1]>>

\* f"{line}" for a float line >= 0 with one decimal, the line in tenths
FormatLine(line) == DigitsOf(line \div 10) \o <<".">> \o DigitsOf(line % 10)

\* the keys of outcomes in _calculate_middle_opportunity when both legs are found
MiddleKeys(lower_line, higher_line) ==
    << <<"O","v","e","r"," ">> \o FormatLine(lower_line),
       <<"U","n","d","e","r"," ">> \o FormatLine(higher_line) >>

\* outcomes of _calculate_middle_opportunity: "Over {lower_line}", "Under {higher_line}"
MiddleLegs(market1, market2) ==
    LET line1 == market1.line[1]
        line2 == market2.line[1]
        lower_line == IF line1 <= line2 THEN line1 ELSE line2
        higher_line == IF line1 >= line2 THEN line1 ELSE line2
        lower_market == IF line1 = lower_line THEN market1 ELSE market2
        higher_market == IF line2 = higher_line THEN market2 ELSE market1
    IN  FirstNamed(lower_market, <<"o","v","e","r">>)
            \o FirstNamed(higher_market, <<"u","n","d","e","r">>)

\* the list of 0 or 1 opportunities of one pair of totals markets
_calculate_middle_opportunity(market1, market2, event, f, t) ==
    LET line1 == market1.line[1]
        line2 == market2.line[1]
        lower_line == IF line1 <= line2 THEN line1 ELSE line2
        higher_line == IF line1 >= line2 THEN line1 ELSE line2
        outcomes == MiddleLegs(market1, market2)
        arb_calc == _calculate_arbitrage(outcomes)
        arb == Opportunity(event, <<"Middle", lower_line, higher_line>>,
                           <<lower_line, higher_line>>,
                           MiddleKeys(lower_line, higher_line),
                           outcomes, arb_calc, f, t)
    IN  IF Len(outcomes) < 2 THEN <<>>
        ELSE IF arb_calc = <<>> THEN <<>>
        ELSE IF ~_passes_arbitrage_filters(arb_calc[1], arb_calc[2], f) THEN <<>>
        ELSE IF ~OpportunityValid(arb) THEN <<>>
        ELSE <<arb>>

\* a variant that pairs totals markets whatever their lines
MiddlesOfAnyTwoLines(totals_markets, event, f, t) ==
    LET pair(i, j) ==
            IF totals_markets[i].line = <<>> \/ totals_markets[j].line = <<>> THEN <<>>
            ELSE _calculate_middle_opportunity(totals_markets[i], totals_markets[j],
                                               event, f, t)
        row(i) == Concat([k \in 1..(Len(totals_markets) - i) |-> pair(i, i + k)])
    IN  IF Len(totals_markets) < 2 THEN <<>>
        ELSE Concat([i \in DOMAIN totals_markets |-> row(i)])

\* every line of the model is a number: isinstance(line, (int, float)) holds
\* whenever the line is not None
_detect_totals_line_arbitrages(totals_markets, event, f, t) ==
    LET pair(i, j) ==
            IF totals_markets[i].line = <<>> \/ totals_markets[j].line = <<>> THEN <<>>
            ELSE IF totals_markets[i].line[1] - totals_markets[j].line[1] \in {10, -10}
            THEN _calculate_middle_opportunity(totals_markets[i], totals_markets[j],
                                               event, f, t)
            ELSE <<>>
        row(i) == Concat([k \in 1..(Len(totals_markets) - i) |-> pair(i, i + k)])
    IN  IF Len(totals_markets) < 2 THEN <<>>
        ELSE Concat([i \in DOMAIN totals_markets |-> row(i)])

\* _detect_handicap_line_arbitrages is a stub that returns no opportunity
_detect_cross_market_arbitrages(event, f, t) ==
    LET totals == SelectSeq(event.markets, LAMBDA m : m.market_type = "totals")
    IN  IF totals # <<>> THEN _detect_totals_line_arbitrages(totals, event, f, t) ELSE <<>>

\* a variant in which the exception of a market reaches the handler of the
\* event loop: the markets before it are kept, the rest of the event is skipped
EventArbitragesUntilError(event, f, t) ==
    LET failing == {m \in DOMAIN event.markets : RaisesInMarket(event, event.markets[m], f, t)}
        last == IF failing = {} THEN Len(event.markets) ELSE Min(failing) - 1
    IN  IF ~_passes_event_filters(event, f, t) THEN <<>>
        ELSE Concat([m \in 1..last |->
                        _detect_market_arbitrages(event, event.markets[m], f, t)])
                \o (IF failing = {} THEN _detect_cross_market_arbitrages(event, f, t)
                    ELSE <<>>)

\* what one iteration of the loop of detect_arbitrages adds to arbitrages
EventArbitrages(event, f, t) ==
    IF ~_passes_event_filters(event, f, t) THEN <<>>
    ELSE Concat([m \in DOMAIN event.markets |->
                    _detect_market_arbitrages(event, event.markets[m], f, t)])
            \o _detect_cross_market_arbitrages(event, f, t)

RECURSIVE InsertDesc(_, _)
\* x put behind every element whose profit_percentage is not below its own
InsertDesc(sorted, x) ==
    IF sorted = <<>> THEN <<x>>
    ELSE IF Head(sorted).profit_percentage >= x.profit_percentage
    THEN <<Head(sorted)>> \o InsertDesc(Tail(sorted), x)
    ELSE <<x>> \o sorted

RECURSIVE SortFrom(_, _, _)
SortFrom(list, i, sorted) ==
    IF i > Len(list) THEN sorted ELSE SortFrom(list, i + 1, InsertDesc(sorted, list[i]))

\* a variant that returns the list in detection order
SortByProfitMissing(list) == list

\* arbitrages.sort(key=lambda x: x.profit_percentage, reverse=True): stable
SortByProfit(list) == SortFrom(list, 1, <<>>)

\* a variant whose event loop breaks at the first event without opportunities
DetectUntilEmptyEvent(events, f, t) ==
    LET empty == {e \in DOMAIN events : EventArbitrages(events[e], f, t) = <<>>}
        last == IF empty = {} THEN Len(events) ELSE Min(empty) - 1
    IN  SortByProfit(Concat([e \in 1..last |-> EventArbitrages(events[e], f, t)]))

detect_arbitrages(events, f, t) ==
    SortByProfit(Concat([e \in DOMAIN events |-> EventArbitrages(events[e], f, t)]))

----------------------------------------------------------------------------
(* Orchestrator cache: app/service/orchestrator.py                         *)

live_refresh_interval == 5
prematch_refresh_interval == 60

\* any(a.event_name for a in self.cached_arbitrages) picks the live interval
max_cache_age_seconds(cached) ==
    IF \E i \in DOMAIN cached : cached[i].event_name # <<>>
    THEN live_refresh_interval ELSE prematch_refresh_interval

\* the two conditions under which get_cached_arbitrages runs a fresh detection
CacheMissOrStale(cached, last, t) ==
    \/ cached = <<>>
    \/ last = <<>>
    \/ t - last[1] > max_cache_age_seconds(cached)

\* filters.sport.value and filters.market_type.value of an ArbitrageFilters with
\* use_enum_values, whose fields hold plain strings, raise AttributeError in
\* the first iteration of _apply_filters_to_cached_results
RaisesOnCached(arbs, f) ==
    /\ f.present
    /\ arbs # <<>>
    /\ (f.sport # <<>> \/ f.market_type # <<>>)

\* the checks of _apply_filters_to_cached_results that skip an opportunity
PassesCachedFilters(arb, f, t) ==
    /\ ~(/\ f.min_arb_percentage # <<>> /\ f.min_arb_percentage[1] # 0
         /\ arb.profit_percentage < f.min_arb_percentage[1])
    /\ ~(/\ f.min_profit # <<>> /\ f.min_profit[1] # 0
         /\ Bankroll(f) * arb.profit_percentage < f.min_profit[1] * 1000000)
    /\ ~(/\ f.bookmakers # <<>>
         /\ \A i \in DOMAIN arb.outcomes : arb.outcomes[i].bookmaker \notin Range(f.bookmakers))
    /\ ~(/\ f.live_only # <<>>
         /\ f.live_only[1] # (arb.freshness_score > 800))
    /\ ~(/\ f.max_start_hours # <<>> /\ f.max_start_hours[1] # 0
         /\ arb.start_time # <<>>
         /\ arb.start_time[1] > t + f.max_start_hours[1] * 3600)

\* "Recalculate stakes if different bankroll requested": the assignments to
\* arb.bankroll, arb.guaranteed_profit and arb.stakes[i].stake_amount. The new
\* guaranteed_profit is not rounded; the bankrolls requested here are multiples
\* of 10000, which makes it a whole number of hundredths
Recalculated(arb, f) ==
    IF f.bankroll # <<>> /\ f.bankroll[1] # 0 /\ f.bankroll[1] # arb.bankroll
    THEN [arb EXCEPT
            !.bankroll = f.bankroll[1],
            !.guaranteed_profit = (f.bankroll[1] * arb.profit_percentage) \div 10000,
            !.stakes = [i \in DOMAIN arb.stakes |->
                IF i \in DOMAIN arb.outcomes
                THEN [arb.stakes[i] EXCEPT !.stake_amount =
                        RoundDiv(100 * f.bankroll[1]
                                     * StakeProportion(arb.outcomes[i], arb.outcomes).n,
                                 StakeProportion(arb.outcomes[i], arb.outcomes).d)]
                ELSE arb.stakes[i]]]
    ELSE arb

\* the objects of the cached list after _apply_filters_to_cached_results ran:
\* the function assigns to the opportunities it was handed
CachedAfterFilters(arbs, f, t) ==
    IF ~f.present \/ RaisesOnCached(arbs, f) THEN arbs
    ELSE [i \in DOMAIN arbs |->
            IF PassesCachedFilters(arbs[i], f, t) THEN Recalculated(arbs[i], f)
            ELSE arbs[i]]

\* the list _apply_filters_to_cached_results returns: the same objects
_apply_filters_to_cached_results(arbs, f, t) ==
    IF ~f.present THEN arbs
    ELSE Concat([i \in DOMAIN arbs |->
                    IF PassesCachedFilters(arbs[i], f, t)
                    THEN <<Recalculated(arbs[i], f)>> ELSE <<>>])

----------------------------------------------------------------------------
(* Bounds and inputs                                                       *)

MaxQuotes == 3          \* quotes in one batch of the engine feed
MaxMatcherQuotes == 2   \* quotes in one batch of the matcher feed
MaxWords == 3           \* words in a name handed to the normalizer
MaxEvents == 3          \* matched events in one call of detect_arbitrages
MaxReorderedQuotes == 3 \* quotes in one batch of the reordering feed
MaxRequests == 2        \* calls of get_cached_arbitrages
MaxClock == 109         \* the clock stops advancing at this instant

ArsenalFCvsChelseaFC == <<"A","r","s","e","n","a","l"," ","F","C"," ","v","s"," ","C","h","e","l","s","e","a"," ","F","C">>
ArsenalHyphenChelsea == <<"A","r","s","e","n","a","l"," ","-"," ","C","h","e","l","s","e","a">>
ArsenalvsChelseaB == <<"A","r","s","e","n","a","l"," ","v","s"," ","C","h","e","l","s","e","a"," ","B">>
ArsenalvsChelsea == <<"A","r","s","e","n","a","l"," ","v","s"," ","C","h","e","l","s","e","a">>

\* a RawOddsData of a pre-match football quote without league
Quote(event_name, start_time, market_name, line, outcome_name, odds, bookmaker, scraped_at) ==
    [event_name |-> event_name, start_time |-> start_time, sport |-> <<"football">>,
     league |-> <<>>, market_name |-> market_name, line |-> line,
     outcome_name |-> outcome_name, odds |-> odds, bookmaker |-> bookmaker,
     scraped_at |-> scraped_at, is_live |-> FALSE]

\* quotes of one fixture: a 1/X/2 market and totals at 2.5, 3.5 and 4.5
EngineFeed ==
    {Quote(ArsenalHyphenChelsea, <<>>, <<"1","x","2">>, <<>>, q[1], q[2], q[3], q[4]) :
        q \in {<< <<"1">>, 2200, "mostbet", 0 >>, << <<"1">>, 2000, "mostbet", 0 >>,
               << <<"1">>, 2000, "stake", 100 >>, << <<"X">>, 2200, "mostbet", 0 >>,
               << <<"2">>, 2200, "stake", 0 >>, << <<"2">>, 2000, "stake", 0 >>,
               << <<"2">>, 2200, "mostbet", 0 >>, << <<"2">>, 2010, "stake", 0 >>,
               << <<"X">>, 12000, "leon", 0 >>}}
    \cup
    {Quote(ArsenalHyphenChelsea, <<>>, <<"T","o","t","a","l","s">>, <<q[1]>>, q[2], q[3], q[4], q[5]) :
        q \in {<< 25, <<"O","v","e","r">>, 2200, "mostbet", 0 >>,
               << 25, <<"U","n","d","e","r">>, 2000, "stake", 100 >>,
               << 35, <<"U","n","d","e","r">>, 2200, "mostbet", 0 >>,
               << 35, <<"U","n","d","e","r">>, 2200, "stake", 0 >>,
               << 45, <<"U","n","d","e","r">>, 2200, "stake", 0 >>}}

\* quotes of one 1/X/2 market under three spellings of the fixture, kicking off
\* at 0 s, 5 minutes or 3 hours later, or at an unknown time; one quote whose
\* odds RawOddsData accepts and OutcomeData rejects; two quotes of sport
\* "table_tennis", league "open" and of sport "table", league "tennis_open"
MatcherFeed ==
    {Quote(e[1], e[2], <<"1","x","2">>, <<>>, b[1], 2200, b[2], 0) :
        e \in {<< ArsenalFCvsChelseaFC, <<0>> >>, << ArsenalHyphenChelsea, <<300>> >>,
               << ArsenalHyphenChelsea, <<10800>> >>, << ArsenalvsChelseaB, <<0>> >>,
               << ArsenalvsChelseaB, <<10800>> >>, << ArsenalvsChelseaB, <<>> >>},
        b \in {<< <<"1">>, "mostbet" >>, << <<"1">>, "stake" >>, << <<"2">>, "stake" >>}}
    \cup
    {Quote(ArsenalFCvsChelseaFC, <<0>>, <<"1","x","2">>, <<>>, <<"2">>, 1005, "mostbet", 0)}
    \cup
    {[Quote(ArsenalFCvsChelseaFC, <<0>>, <<"1","x","2">>, <<>>, <<"1">>, 2200, "mostbet", 0)
         EXCEPT !.sport = <<"table", "tennis">>, !.league = <<"open">>],
     [Quote(ArsenalFCvsChelseaFC, <<0>>, <<"1","x","2">>, <<>>, <<"2">>, 2200, "stake", 0)
         EXCEPT !.sport = <<"table">>, !.league = <<"tennis", "open">>]}

\* quotes of one 1/X/2 market whose order in the batch can matter: two spellings
\* with one normalized form, a similar third one, two bookmakers quoting "1" at
\* the same instant and one quoting it later
ReorderingFeed ==
    { Quote(ArsenalHyphenChelsea, <<300>>, <<"1","x","2">>, <<>>, <<"1">>, 2200, "stake", 0),
      Quote(ArsenalFCvsChelseaFC, <<0>>, <<"1","x","2">>, <<>>, <<"1">>, 2000, "mostbet", 0),
      Quote(ArsenalvsChelseaB, <<0>>, <<"1","x","2">>, <<>>, <<"2">>, 2200, "stake", 0),
      Quote(ArsenalvsChelseaB, <<0>>, <<"1","x","2">>, <<>>, <<"1">>, 2100, "mostbet", 50) }

LeedsvsHull == <<"L","e","e","d","s"," ","v","s"," ","H","u","l","l">>
AjaxvsPorto == <<"A","j","a","x"," ","v","s"," ","P","o","r","t","o">>
LyonvsNice == <<"L","y","o","n"," ","v","s"," ","N","i","c","e">>

\* the quotes of five fixtures: a 10% and a 4.7619% two-way market, a fixture with
\* a 4.7619% totals market and a 10% middle, a market without opportunity, and a
\* live fixture with two quotes stamped at 115 s and one at 100 s
FixtureBatches ==
    { << Quote(ArsenalvsChelsea, <<>>, <<"1","x","2">>, <<>>, <<"1">>, 2200, "mostbet", 0),
         Quote(ArsenalvsChelsea, <<>>, <<"1","x","2">>, <<>>, <<"2">>, 2200, "stake", 0) >>,
      << Quote(ArsenalvsChelseaB, <<>>, <<"1","x","2">>, <<>>, <<"1">>, 2000, "mostbet", 0),
         Quote(ArsenalvsChelseaB, <<>>, <<"1","x","2">>, <<>>, <<"2">>, 2200, "stake", 0) >>,
      << Quote(LeedsvsHull, <<>>, <<"T","o","t","a","l","s">>, <<25>>,
               <<"O","v","e","r">>, 2200, "mostbet", 0),
         Quote(LeedsvsHull, <<>>, <<"T","o","t","a","l","s">>, <<25>>,
               <<"U","n","d","e","r">>, 2000, "stake", 100),
         Quote(LeedsvsHull, <<>>, <<"T","o","t","a","l","s">>, <<35>>,
               <<"U","n","d","e","r">>, 2200, "stake", 0) >>,
      << Quote(AjaxvsPorto, <<>>, <<"1","x","2">>, <<>>, <<"1">>, 2000, "mostbet", 0),
         Quote(AjaxvsPorto, <<>>, <<"1","x","2">>, <<>>, <<"2">>, 2000, "stake", 0) >>,
      << [Quote(LyonvsNice, <<>>, <<"1","x","2">>, <<>>, <<"1">>, 2200, "mostbet", 115)
             EXCEPT !.is_live = TRUE],
         [Quote(LyonvsNice, <<>>, <<"1","x","2">>, <<>>, <<"X">>, 12000, "leon", 100)
             EXCEPT !.is_live = TRUE],
         [Quote(LyonvsNice, <<>>, <<"1","x","2">>, <<>>, <<"2">>, 2200, "stake", 115)
             EXCEPT !.is_live = TRUE] >> }

\* the matched event of each fixture, as match_events returns it
EventPool == {match_events(batch)[1] : batch \in FixtureBatches}

\* the lists of at most MaxEvents different matched events
EventLists ==
    UNION {{events \in [1..n -> EventPool] :
               \A i, j \in 1..n : i # j => events[i] # events[j]} : n \in 1..MaxEvents}

\* the filters of a get_cached_arbitrages call
CacheFilterChoices ==
    {NoFilters,
     [NoFilters EXCEPT !.present = TRUE, !.bankroll = <<10000>>],
     [NoFilters EXCEPT !.present = TRUE, !.sport = <<"football">>],
     [NoFilters EXCEPT !.present = TRUE, !.bookmakers = <<"leon">>]}

\* what the scrapers may deliver to one detection: nothing, or one fixture
ScrapedBatches == {<<>>} \cup FixtureBatches

\* the filters of a detect_arbitrages call
FilterChoices ==
    {NoFilters,
     [NoFilters EXCEPT !.present = TRUE, !.min_arb_percentage = <<0>>, !.bankroll = <<500>>],
     [NoFilters EXCEPT !.present = TRUE, !.market_type = <<"totals">>,
                       !.bookmakers = <<"stake">>, !.min_profit = <<150>>]}

\* the instants a detect_arbitrages call may run at: before the latest quotes
\* were stamped (the scrapers' clocks run ahead), and 2 and nearly 6 minutes after
\* the first ones
DetectTimes == {20, 120, 350}

\* the calls of detect_arbitrages: without filters at any instant, with filters
\* at the second one
DetectCalls == {c \in FilterChoices \X DetectTimes : c[1] = NoFilters \/ c[2] = 120}

NormWords == {<<"F","C">>, <<"U","n","i","t","e","d">>, <<"C","i","t","y">>,
              <<"M","a","n","c","h","e","s","t","e","r">>}

RECURSIVE JoinWords(_)
\* " ".join(words)
JoinWords(words) ==
    IF words = <<>> THEN <<>>
    ELSE IF Len(words) = 1 THEN words[1]
    ELSE words[1] \o <<" ">> \o JoinWords(Tail(words))

\* the team names of at most MaxWords words
TeamInputs == {JoinWords(ws) : ws \in UNION {[1..n -> NormWords] : n \in 1..MaxWords}}

\* event names of two one- or two-word teams around a separator
EventInputs ==
    LET short == {JoinWords(ws) : ws \in UNION {[1..n -> NormWords] : n \in 1..2}}
    IN  {a \o separators[i] \o <<"C","h","e","l","s","e","a">> : a \in short, i \in {1, 3}}
            \cup {<<"C","h","e","l","s","e","a">> \o separators[1] \o b : b \in short}

\* the market names that are a keyword of market_mapping once lower-cased: the
\* keyword as it is, with its first letter in upper case, and all in upper case
MarketNames ==
    LET upper(c) == IF c \in Range(LowerCase)
                    THEN UpperCase[CHOOSE i \in DOMAIN LowerCase : LowerCase[i] = c]
                    ELSE c
    IN  UNION {{market_mapping[k].key,
                <<upper(market_mapping[k].key[1])>> \o Tail(market_mapping[k].key),
                [i \in DOMAIN market_mapping[k].key |-> upper(market_mapping[k].key[i])]} :
               k \in DOMAIN market_mapping}

----------------------------------------------------------------------------
(* The detection cycle                                                     *)

\* __init__: no cached result, no request made yet
NoRequest == [pc |-> "idle", filters |-> NoFilters, arbitrages |-> <<>>, summary |-> "none"]

CacheEmpty ==
    /\ cached_arbitrages = <<>>
    /\ last_scrape_time = <<>>
    /\ requests = [r \in 1..MaxRequests |-> NoRequest]

Init ==
    /\ all_odds = <<>>
    /\ pc = "scrape"
    /\ matched_events = <<>>
    /\ arbitrages = <<>>
    /\ filters = NoFilters
    /\ now = 0
    /\ name = <<>>
    /\ kind = "idle"
    /\ CacheEmpty

\* one more quote arrives in the batch of this cycle
Scrape(feed, max) ==
    /\ pc = "scrape"
    /\ Len(all_odds) < max
    /\ \E q \in feed : all_odds' = Append(all_odds, q)
    /\ UNCHANGED <<pc, matched_events, arbitrages, filters, now, name, kind>>
    /\ UNCHANGED cache

\* matched_events = self.matcher.match_events(all_odds)
MatchEvents ==
    /\ pc = "scrape"
    /\ matched_events' = match_events(all_odds)
    /\ pc' = "matched"
    /\ UNCHANGED <<all_odds, arbitrages, filters, now, name, kind>>
    /\ UNCHANGED cache

\* arbitrages = self.arbitrage_engine.detect_arbitrages(matched_events, filters)
DetectArbitrages ==
    /\ pc = "matched"
    /\ \E c \in DetectCalls :
        /\ arbitrages' = detect_arbitrages(matched_events, c[1], c[2])
        /\ filters' = c[1]
        /\ now' = c[2]
    /\ pc' = "detected"
    /\ UNCHANGED <<all_odds, matched_events, name, kind>>
    /\ UNCHANGED cache

ScrapeEngineFeed == Scrape(EngineFeed, MaxQuotes)
ScrapeMatcherFeed == Scrape(MatcherFeed, MaxMatcherQuotes)

Next == ScrapeEngineFeed \/ MatchEvents \/ DetectArbitrages

Spec == Init /\ [][Next]_vars

\* detect_arbitrages called on a list of matched events
InitDetect ==
    /\ all_odds = <<>>
    /\ pc = "matched"
    /\ matched_events \in EventLists
    /\ arbitrages = <<>>
    /\ filters = NoFilters
    /\ now = 0
    /\ name = <<>>
    /\ kind = "idle"
    /\ CacheEmpty

NextDetect == DetectArbitrages

SpecDetect == InitDetect /\ [][NextDetect]_vars

ScrapeReorderingFeed == Scrape(ReorderingFeed, MaxReorderedQuotes)

NextReorder == ScrapeReorderingFeed \/ MatchEvents

SpecReorder == Init /\ [][NextReorder]_vars

NextMatch == ScrapeMatcherFeed \/ MatchEvents

SpecMatch == Init /\ [][NextMatch]_vars

\* the normalizer applied to a name, and again to its result
InitNorm ==
    /\ all_odds = <<>>
    /\ pc = "normalize"
    /\ matched_events = <<>>
    /\ arbitrages = <<>>
    /\ filters = NoFilters
    /\ now = 0
    /\ name \in TeamInputs \cup EventInputs
    /\ kind = "raw"
    /\ CacheEmpty

NormalizeTeamName ==
    /\ pc = "normalize"
    /\ kind \in {"raw", "team"}
    /\ name' = _normalize_team_name(name)
    /\ kind' = "team"
    /\ UNCHANGED <<all_odds, pc, matched_events, arbitrages, filters, now>>
    /\ UNCHANGED cache

NormalizeEventName ==
    /\ pc = "normalize"
    /\ kind \in {"raw", "event"}
    /\ name' = _normalize_event_name(name)
    /\ kind' = "event"
    /\ UNCHANGED <<all_odds, pc, matched_events, arbitrages, filters, now>>
    /\ UNCHANGED cache

NextNorm == NormalizeTeamName \/ NormalizeEventName

SpecNorm == InitNorm /\ [][NextNorm]_vars

\* _determine_market_type applied to a market name
InitMarket ==
    /\ all_odds = <<>>
    /\ pc = "classify"
    /\ matched_events = <<>>
    /\ arbitrages = <<>>
    /\ filters = NoFilters
    /\ now = 0
    /\ name \in MarketNames
    /\ kind = "raw"
    /\ CacheEmpty

\* kind becomes the value of the MarketType returned for name
DetermineMarketType ==
    /\ pc = "classify"
    /\ kind = "raw"
    /\ kind' = _determine_market_type(name)
    /\ UNCHANGED <<all_odds, pc, matched_events, arbitrages, filters, now, name>>
    /\ UNCHANGED cache

NextMarket == DetermineMarketType

SpecMarket == InitMarket /\ [][NextMarket]_vars

\* the orchestrator serving calls of get_cached_arbitrages, 100 s after the
\* first quotes were stamped
InitCache ==
    /\ all_odds = <<>>
    /\ pc = "serving"
    /\ matched_events = <<>>
    /\ arbitrages = <<>>
    /\ filters = NoFilters
    /\ now = 100
    /\ name = <<>>
    /\ kind = "idle"
    /\ CacheEmpty

\* the scrapers _initialize_scrapers builds, restricted to filters.bookmakers
ActiveScrapers(f) ==
    IF f.present /\ f.bookmakers # <<>>
    THEN {"mostbet", "stake"} \cap Range(f.bookmakers)
    ELSE {"mostbet", "stake"}

\* get_cached_arbitrages up to its return or, when it runs a fresh detection,
\* up to the await of the scrapers in _scrape_all_bookmakers; without an active
\* scraper nothing is awaited and the detection returns "No odds data available"
GetCachedArbitrages ==
    /\ pc = "serving"
    /\ \E r \in DOMAIN requests, f \in CacheFilterChoices :
        /\ requests[r].pc = "idle"
        /\ IF CacheMissOrStale(cached_arbitrages, last_scrape_time, now)
           THEN /\ requests' = [requests EXCEPT ![r] =
                        IF ActiveScrapers(f) = {}
                        THEN [pc |-> "done", filters |-> f, arbitrages |-> <<>>,
                              summary |-> "error"]
                        ELSE [pc |-> "scraping", filters |-> f, arbitrages |-> <<>>,
                              summary |-> "none"]]
                /\ UNCHANGED <<cached_arbitrages, last_scrape_time>>
           ELSE IF RaisesOnCached(cached_arbitrages, f)
           THEN /\ requests' = [requests EXCEPT ![r] =
                        [pc |-> "done", filters |-> f, arbitrages |-> <<>>,
                         summary |-> "raised"]]
                /\ UNCHANGED <<cached_arbitrages, last_scrape_time>>
           ELSE /\ cached_arbitrages' = CachedAfterFilters(cached_arbitrages, f, now)
                /\ requests' = [requests EXCEPT ![r] =
                        [pc |-> "done", filters |-> f,
                         arbitrages |-> _apply_filters_to_cached_results(cached_arbitrages, f, now),
                         summary |-> "cached_result"]]
                /\ UNCHANGED last_scrape_time
    /\ UNCHANGED <<all_odds, pc, matched_events, arbitrages, filters, now, name, kind>>

\* run_full_arbitrage_detection from the return of the scrapers to its own
\* return; all_odds and matched_events keep the values of the run that filled
\* the cache
ResumeDetection ==
    /\ pc = "serving"
    /\ \E r \in DOMAIN requests, batch \in ScrapedBatches :
        LET f == requests[r].filters
            scraped == SelectSeq(batch, LAMBDA q : q.bookmaker \in ActiveScrapers(f))
            matched == match_events(scraped)
            found == detect_arbitrages(matched, f, now)
        IN  /\ requests[r].pc = "scraping"
            /\ IF scraped = <<>> \/ matched = <<>>
               THEN /\ requests' = [requests EXCEPT ![r] =
                            [@ EXCEPT !.pc = "done", !.summary = "error"]]
                    /\ UNCHANGED <<cached_arbitrages, last_scrape_time>>
                    /\ UNCHANGED <<all_odds, matched_events>>
               ELSE /\ all_odds' = scraped
                    /\ matched_events' = matched
                    /\ cached_arbitrages' = found
                    /\ last_scrape_time' = <<now>>
                    /\ requests' = [requests EXCEPT ![r] =
                            [@ EXCEPT !.pc = "done", !.arbitrages = found,
                                      !.summary = "fresh"]]
    /\ UNCHANGED <<pc, arbitrages, filters, now, name, kind>>

\* time passes between two steps of the event loop
AdvanceClock ==
    /\ pc = "serving"
    /\ now < MaxClock
    /\ now' = now + 3
    /\ UNCHANGED <<all_odds, pc, matched_events, arbitrages, filters, name, kind>>
    /\ UNCHANGED cache

NextCache == GetCachedArbitrages \/ ResumeDetection \/ AdvanceClock

SpecCache == InitCache /\ [][NextCache]_vars

----------------------------------------------------------------------------
(* Claims about the arbitrage engine, checked under Spec                   *)

IsMiddle(arb) == arb.market_type[1] = "Middle"

SingleMarket == {k \in DOMAIN arbitrages : ~IsMiddle(arbitrages[k])}
Middles == {k \in DOMAIN arbitrages : IsMiddle(arbitrages[k])}

LegNames(arb) == {arb.outcomes[i].name : i \in DOMAIN arb.outcomes}

\* the names of the outcomes of a market that pass the freshness filter of the call
FreshNames(event, market) ==
    {market.outcomes[i].name :
        i \in {j \in DOMAIN market.outcomes :
                 now - market.outcomes[j].last_seen <=
                    (IF event.event.is_live THEN live_odds_max_age ELSE prematch_odds_max_age)}}

\* whether the single-market opportunity arb was detected in this market
IsMarketOf(arb, event, market) ==
    /\ event.event.canonical_name = arb.event_name
    /\ market.key = <<arb.market_type[1], arb.line>>

\* C1: every single-market opportunity has a leg for every outcome name of its
\* market that survives the freshness filter
C1_EveryFreshOutcomeHasALeg ==
    pc = "detected" =>
        \A k \in SingleMarket :
            \A e \in DOMAIN matched_events :
                \A m \in DOMAIN matched_events[e].markets :
                    IsMarketOf(arbitrages[k], matched_events[e], matched_events[e].markets[m])
                    => FreshNames(matched_events[e], matched_events[e].markets[m])
                            \subseteq LegNames(arbitrages[k])

\* C2: the legs of every single-market opportunity are at least 2 and come from
\* pairwise distinct bookmakers
C2_LegsFromDistinctBookmakers ==
    pc = "detected" =>
        \A k \in SingleMarket :
            /\ Len(arbitrages[k].outcomes) >= 2
            /\ \A i, j \in DOMAIN arbitrages[k].outcomes :
                   i # j => arbitrages[k].outcomes[i].bookmaker
                                # arbitrages[k].outcomes[j].bookmaker

\* an opportunity was detected in a market where one bookmaker holds two of the
\* three fresh outcomes, so that the exclusion of used bookmakers acted
C2_Witness ==
    /\ pc = "detected"
    /\ \E k \in SingleMarket :
          \E e \in DOMAIN matched_events :
              \E m \in DOMAIN matched_events[e].markets :
                  /\ IsMarketOf(arbitrages[k], matched_events[e], matched_events[e].markets[m])
                  /\ Cardinality(FreshNames(matched_events[e], matched_events[e].markets[m])) = 3
                  /\ \E i, j \in DOMAIN matched_events[e].markets[m].outcomes :
                        /\ i # j
                        /\ matched_events[e].markets[m].outcomes[i].bookmaker
                               = matched_events[e].markets[m].outcomes[j].bookmaker

\* the sum of 1/odds over the reported legs is below 1: with the odds in
\* thousandths, sum(1000 / odds) as a fraction n/d has n < d
ImpliedSumBelowOne(arb) == SumImplied(arb.outcomes).n < SumImplied(arb.outcomes).d

\* C3: every reported opportunity, single-market or middle, has an
\* implied-probability sum strictly below 1
C3_ImpliedSumStrictlyBelowOne ==
    pc = "detected" => \A k \in DOMAIN arbitrages : ImpliedSumBelowOne(arbitrages[k])

\* a single-market and a middle opportunity were both reported
C3_Witness ==
    /\ pc = "detected"
    /\ SingleMarket # {}
    /\ Middles # {}

\* C4: the two legs of every middle opportunity come from two distinct bookmakers
C4_MiddleLegsFromDistinctBookmakers ==
    pc = "detected" =>
        \A k \in Middles :
            arbitrages[k].outcomes[1].bookmaker # arbitrages[k].outcomes[2].bookmaker

\* C5: the returned list is sorted by profit_percentage, non-increasing
C5_SortedByProfitDescending ==
    pc = "detected" =>
        \A i, j \in DOMAIN arbitrages :
            i < j => arbitrages[i].profit_percentage >= arbitrages[j].profit_percentage

\* two opportunities of different profit were reported, the more profitable one
\* detected last
C5_Witness ==
    /\ pc = "detected"
    /\ Len(arbitrages) = 2
    /\ arbitrages[1].profit_percentage > arbitrages[2].profit_percentage
    /\ IsMiddle(arbitrages[1])
    /\ ~IsMiddle(arbitrages[2])

\* |units / 10^4 - 100 * n / d| <= tol, for tol = 1 / (10^4 * inverse_tol_units):
\* with x = units * d - 10^6 * n this is |x| * inverse_tol_units <= d
WithinOf(units, n, d, inverse_tol_units) ==
    LET x == units * d - 1000000 * n
    IN  (IF x >= 0 THEN x ELSE -x) * inverse_tol_units <= d

\* arb_percentage against sum(1/odds) * 100 = 100 * n / d
ArbPercentageWithin(arb, inverse_tol_units) ==
    LET total == SumImplied(arb.outcomes)
    IN  WithinOf(arb.arb_percentage, total.n, total.d, inverse_tol_units)

\* profit_percentage against (1/sum(1/odds) - 1) * 100 = 100 * (d - n) / n
ProfitPercentageWithin(arb, inverse_tol_units) ==
    LET total == SumImplied(arb.outcomes)
    IN  WithinOf(arb.profit_percentage, total.d - total.n, total.n, inverse_tol_units)

\* C10 as claimed: arb_percentage and profit_percentage are within 1e-6
\* (a hundredth of a unit of 0.0001) of the values recomputed from the legs
C10_PercentagesWithinOneMillionth ==
    pc = "detected" =>
        \A k \in DOMAIN arbitrages :
            /\ ArbPercentageWithin(arbitrages[k], 100)
            /\ ProfitPercentageWithin(arbitrages[k], 100)

\* C10 as amended: arb_percentage and profit_percentage are the recomputed values
\* rounded to 4 decimals, hence within 0.00005 (half a unit of 0.0001) of them
C10_PercentagesRoundedToFourDecimals ==
    pc = "detected" =>
        \A k \in DOMAIN arbitrages :
            /\ ArbPercentageWithin(arbitrages[k], 2)
            /\ ProfitPercentageWithin(arbitrages[k], 2)

\* an opportunity was reported whose recomputed percentages are no multiples of
\* 0.0001, so that the rounding acted
C10_Witness ==
    /\ pc = "detected"
    /\ \E k \in DOMAIN arbitrages :
          LET total == SumImplied(arbitrages[k].outcomes)
          IN  /\ (total.n * 1000000) % total.d # 0
              /\ ((total.d - total.n) * 1000000) % total.n # 0

----------------------------------------------------------------------------
(* Claims about the event matcher, checked under SpecMatch                 *)

\* the raw event names of the batch
RawNames == {all_odds[i].event_name : i \in DOMAIN all_odds}

\* the known start times quoted under a raw event name
TimesOf(raw_name) ==
    {all_odds[i].start_time[1] :
        i \in {j \in DOMAIN all_odds : /\ all_odds[j].event_name = raw_name
                                       /\ all_odds[j].start_time # <<>>}}

\* some start time of one side is within the tolerance of one of the other side
SomePairWithinTolerance(times1, times2) ==
    \E time1 \in times1, time2 \in times2 :
        /\ time1 - time2 <= time_tolerance
        /\ time2 - time1 <= time_tolerance

\* the lists of quotes the matcher merges into one event each, over all groups
AllMatchedGroups ==
    LET grouped_odds == _group_odds_by_sport_league(_normalize_odds_data(all_odds))
    IN  Concat([g \in DOMAIN grouped_odds |-> MatchedGroups(grouped_odds[g].items)])

\* quotes i and j of the batch are merged into one event of the output
InSameMatchedEvent(i, j) ==
    \E g \in DOMAIN AllMatchedGroups :
        /\ \E k \in DOMAIN AllMatchedGroups[g] :
               AllMatchedGroups[g][k] = NormalizeOdds(all_odds[i])
        /\ \E k \in DOMAIN AllMatchedGroups[g] :
               AllMatchedGroups[g][k] = NormalizeOdds(all_odds[j])
        /\ \E e \in DOMAIN matched_events :
               <<matched_events[e]>> = _merge_event_group(AllMatchedGroups[g])

\* quotes i and j carry two names of one sport/league group, both with known
\* start times and no pair of them within the tolerance
FarApart(i, j) ==
    /\ all_odds[i].event_name # all_odds[j].event_name
    /\ GroupKey(all_odds[i]) = GroupKey(all_odds[j])
    /\ TimesOf(all_odds[i].event_name) # {}
    /\ TimesOf(all_odds[j].event_name) # {}
    /\ ~SomePairWithinTolerance(TimesOf(all_odds[i].event_name),
                                TimesOf(all_odds[j].event_name))

\* C6: quotes under two event names of one group whose known start times are
\* all further apart than the tolerance are never put into the same MatchedEvent
C6_FarApartNamesStaySeparate ==
    pc = "matched" =>
        \A i, j \in DOMAIN all_odds : FarApart(i, j) => ~InSameMatchedEvent(i, j)

\* the batch holds exactly two event names, in one sport/league group, whose
\* normalized forms are similar and whose start times are within the tolerance
TwoSimilarNamesInTime ==
    /\ Cardinality(RawNames) = 2
    /\ \A i, j \in DOMAIN all_odds : GroupKey(all_odds[i]) = GroupKey(all_odds[j])
    /\ \A x, y \in RawNames :
          x # y => /\ IsSimilar(_normalize_event_name(x), _normalize_event_name(y))
                   /\ SomePairWithinTolerance(TimesOf(x), TimesOf(y))

\* C7 as claimed: two similar names within the tolerance, alone in their group,
\* are merged by match_events into one MatchedEvent
C7_SimilarNamesYieldOneEvent ==
    (pc = "matched" /\ TwoSimilarNamesInTime) => Len(matched_events) = 1

\* the quotes of the batch as one cluster: those under the normalized name of
\* the first quote, then the others
BothNamesCluster ==
    LET odds == _normalize_odds_data(all_odds)
    IN  SelectSeq(odds, LAMBDA q : q.event_name = odds[1].event_name)
            \o SelectSeq(odds, LAMBDA q : q.event_name # odds[1].event_name)

\* C7 as amended: two similar names within the tolerance, alone in their group,
\* are put into one cluster of all their quotes; match_events returns the one
\* event merged from it, or nothing when a quote has odds outside [1.01, 1000]
\* or the outcomes the event retains come from fewer than 2 bookmakers
C7_SimilarNamesFormOneCluster ==
    (pc = "matched" /\ TwoSimilarNamesInTime) =>
        /\ AllMatchedGroups = <<BothNamesCluster>>
        /\ matched_events =
              SelectSeq(_merge_event_group(BothNamesCluster),
                        LAMBDA event : \E m1, m2 \in DOMAIN event.markets :
                            \E o1 \in DOMAIN event.markets[m1].outcomes,
                               o2 \in DOMAIN event.markets[m2].outcomes :
                                event.markets[m1].outcomes[o1].bookmaker
                                    # event.markets[m2].outcomes[o2].bookmaker)

\* two names of different normalized forms were merged into one event that the
\* matcher returned
C7_Witness ==
    /\ pc = "matched"
    /\ TwoSimilarNamesInTime
    /\ \E x, y \in RawNames : _normalize_event_name(x) # _normalize_event_name(y)
    /\ Len(matched_events) = 1

\* C8: every MatchedEvent of the output has outcomes from at least 2 distinct
\* bookmakers across its markets
C8_AtLeastTwoBookmakers ==
    pc = "matched" =>
        \A e \in DOMAIN matched_events :
            \E m1, m2 \in DOMAIN matched_events[e].markets :
                \E o1 \in DOMAIN matched_events[e].markets[m1].outcomes,
                   o2 \in DOMAIN matched_events[e].markets[m2].outcomes :
                    matched_events[e].markets[m1].outcomes[o1].bookmaker
                        # matched_events[e].markets[m2].outcomes[o2].bookmaker

\* the matcher returned an event
C8_Witness ==
    /\ pc = "matched"
    /\ matched_events # <<>>

----------------------------------------------------------------------------
(* Claims about the name normalizer, checked under SpecNorm                *)

\* C9: a name the normalizer has returned is returned unchanged when it is
\* normalized again, as a team name or as an event name
C9_NormalizationIdempotent ==
    /\ kind = "team" => _normalize_team_name(name) = name
    /\ kind = "event" => _normalize_event_name(name) = name

----------------------------------------------------------------------------
(* Claims about stakes and thresholds, checked under Spec                  *)

RECURSIVE SumStakes(_)
SumStakes(stakes) ==
    IF stakes = <<>> THEN 0 ELSE Head(stakes).stake_amount + SumStakes(Tail(stakes))

Abs(x) == IF x >= 0 THEN x ELSE -x

\* C11: the stake list of every opportunity has one entry per leg, each for the
\* leg's bookmaker, and the stake amounts sum to the bankroll within half a
\* hundredth per leg (each stake is rounded to 2 decimals)
C11_StakesSumToBankroll ==
    pc = "detected" =>
        \A k \in DOMAIN arbitrages :
            /\ Len(arbitrages[k].stakes) = Len(arbitrages[k].outcomes)
            /\ \A i \in DOMAIN arbitrages[k].stakes :
                   arbitrages[k].stakes[i].bookmaker = arbitrages[k].outcomes[i].bookmaker
            /\ 2 * Abs(SumStakes(arbitrages[k].stakes) - 100 * arbitrages[k].bankroll)
                   <= Len(arbitrages[k].outcomes)

\* an opportunity was reported whose rounded stakes do not sum to the bankroll
C11_Witness ==
    /\ pc = "detected"
    /\ \E k \in DOMAIN arbitrages :
           SumStakes(arbitrages[k].stakes) # 100 * arbitrages[k].bankroll

\* stake_amount * odds of a leg, in units of 0.00001
LegReturn(arb, i) == arb.stakes[i].stake_amount * arb.outcomes[i].odds

\* C12: the returns stake * odds of any two legs of an opportunity differ by no
\* more than the rounding of the two stakes allows (0.005 times the odds, for
\* each), and every leg's potential_profit is within 0.01 + bankroll * 0.0000005
\* of guaranteed_profit, the allowance for rounding both to 2 decimals and the
\* profit percentage to 4
C12_EqualReturnsAndProfits ==
    pc = "detected" =>
        \A k \in DOMAIN arbitrages :
            /\ \A i, j \in DOMAIN arbitrages[k].stakes :
                   Abs(LegReturn(arbitrages[k], i) - LegReturn(arbitrages[k], j)) * 2
                       <= arbitrages[k].outcomes[i].odds + arbitrages[k].outcomes[j].odds
            /\ \A i \in DOMAIN arbitrages[k].stakes :
                   (Abs(arbitrages[k].stakes[i].potential_profit
                            - arbitrages[k].guaranteed_profit) - 1) * 20000
                       <= arbitrages[k].bankroll

\* a three-leg opportunity was reported whose legs return different amounts
\* after the rounding of the stakes
C12_Witness ==
    /\ pc = "detected"
    /\ \E k \in DOMAIN arbitrages :
          /\ Len(arbitrages[k].stakes) = 3
          /\ \E i, j \in DOMAIN arbitrages[k].stakes :
                 LegReturn(arbitrages[k], i) # LegReturn(arbitrages[k], j)

\* the minimum profit percentage that applies to the call: the filter's when
\* supplied, 0 included, otherwise the configured one
ApplicableMinimum ==
    IF filters.present /\ filters.min_arb_percentage # <<>>
    THEN filters.min_arb_percentage[1]
    ELSE min_arb_percentage

\* C13: every reported opportunity, single-market or middle, has a
\* profit_percentage at or above the applicable minimum and an arb_percentage
\* strictly below 100
C13_MeetsMinimumProfit ==
    pc = "detected" =>
        \A k \in DOMAIN arbitrages :
            /\ arbitrages[k].profit_percentage >= ApplicableMinimum
            /\ arbitrages[k].arb_percentage < 1000000

\* under a filter with minimum 0 an opportunity below the configured minimum was
\* reported
C13_Witness ==
    /\ pc = "detected"
    /\ filters.present
    /\ filters.min_arb_percentage = <<0>>
    /\ \E k \in DOMAIN arbitrages : arbitrages[k].profit_percentage < min_arb_percentage

----------------------------------------------------------------------------
(* Claims about middles, checked under Spec                                *)

\* the Over of the market at the lower line and the Under of the market at the
\* higher line, each the first outcome so named, when both exist
OverAndUnder(lower_market, higher_market) ==
    LET overs == {i \in DOMAIN lower_market.outcomes :
                     Contains(Lower(lower_market.outcomes[i].name), <<"o","v","e","r">>)}
        unders == {i \in DOMAIN higher_market.outcomes :
                     Contains(Lower(higher_market.outcomes[i].name), <<"u","n","d","e","r">>)}
    IN  IF overs = {} \/ unders = {} THEN <<>>
        ELSE << lower_market.outcomes[Min(overs)], higher_market.outcomes[Min(unders)] >>

\* markets i and j of an event are totals markets, j's line above i's by gap tenths
TotalsApart(event, i, j, gap) ==
    /\ event.markets[i].market_type = "totals"
    /\ event.markets[j].market_type = "totals"
    /\ event.markets[i].line # <<>>
    /\ event.markets[j].line # <<>>
    /\ event.markets[j].line[1] - event.markets[i].line[1] = gap

\* the implied probabilities of the legs sum below 1 and the profit meets the
\* applicable minimum, the arb percentage rounded to 4 decimals being below 100
Profitable(legs) ==
    LET total == SumImplied(legs)
    IN  /\ total.n < total.d
        /\ (total.d - total.n) * 1000000 >= ApplicableMinimum * total.n
        /\ 2 * (total.d - total.n) * 1000000 > total.d

\* opportunity arb is the middle of these two legs at these two lines of the event
IsMiddleOf(arb, event, legs, lower_line, higher_line) ==
    /\ IsMiddle(arb)
    /\ arb.event_name = event.event.canonical_name
    /\ arb.line = <<lower_line, higher_line>>
    /\ arb.outcomes = legs

\* for every two totals markets of an event whose lines differ by exactly 1.0, a
\* profitable pair of the lower line's Over and the higher line's Under is
\* reported as a middle of exactly these two outcomes
EveryProfitableMiddleReported ==
        /\ \A e \in DOMAIN matched_events :
             \A i, j \in DOMAIN matched_events[e].markets :
                (/\ TotalsApart(matched_events[e], i, j, 10)
                 /\ OverAndUnder(matched_events[e].markets[i],
                                 matched_events[e].markets[j]) # <<>>
                 /\ Profitable(OverAndUnder(matched_events[e].markets[i],
                                            matched_events[e].markets[j])))
                => \E k \in Middles :
                      IsMiddleOf(arbitrages[k], matched_events[e],
                                 OverAndUnder(matched_events[e].markets[i],
                                              matched_events[e].markets[j]),
                                 matched_events[e].markets[i].line[1],
                                 matched_events[e].markets[j].line[1])

\* every reported middle is the Over and the Under of two totals markets of one
\* event whose lines differ by exactly 1.0
EveryMiddleOfAdjacentTotals ==
        /\ \A k \in Middles :
             \E e \in DOMAIN matched_events :
                \E i, j \in DOMAIN matched_events[e].markets :
                    /\ TotalsApart(matched_events[e], i, j, 10)
                    /\ IsMiddleOf(arbitrages[k], matched_events[e],
                                  OverAndUnder(matched_events[e].markets[i],
                                               matched_events[e].markets[j]),
                                  matched_events[e].markets[i].line[1],
                                  matched_events[e].markets[j].line[1])

----------------------------------------------------------------------------
(* Claims about failures and order, checked under Spec                     *)

\* the markets whose processing raises in the call that was made
FailingMarkets ==
    {u \in (DOMAIN matched_events) \X (1..(MaxQuotes + 1)) :
        /\ u[2] \in DOMAIN matched_events[u[1]].markets
        /\ RaisesInMarket(matched_events[u[1]], matched_events[u[1]].markets[u[2]],
                          filters, now)}

\* the matched events without the markets whose processing raises
WithoutFailingMarkets ==
    [e \in DOMAIN matched_events |->
        [matched_events[e] EXCEPT !.markets =
            SelectSeq(@, LAMBDA market :
                ~RaisesInMarket(matched_events[e], market, filters, now))]]

SinglesOf(list) == SelectSeq(list, LAMBDA arb : ~IsMiddle(arb))

Counted(list) ==
    [arb \in Range(list) |-> Cardinality({i \in DOMAIN list : list[i] = arb})]

\* the rearrangements of 1..n
Orders(n) == {order \in [1..n -> 1..n] : \A i, j \in 1..n : i # j => order[i] # order[j]}

\* C16, checked under SpecDetect: detect_arbitrages returns the same multiset of
\* opportunities for every rearrangement of the list of matched events, and the
\* opportunities of each event are those of a call on that event alone
C16_OrderInsensitiveAcrossEvents ==
    pc = "detected" =>
        /\ \A order \in Orders(Len(matched_events)) :
               Counted(detect_arbitrages([i \in DOMAIN matched_events |->
                                              matched_events[order[i]]], filters, now))
                   = Counted(arbitrages)
        /\ \A e \in DOMAIN matched_events :
               Counted(SelectSeq(arbitrages,
                                 LAMBDA arb : arb.event_name
                                                 = matched_events[e].event.canonical_name))
                   = Counted(detect_arbitrages(<<matched_events[e]>>, filters, now))

\* three events were handed over, the one without opportunity first, and
\* opportunities of two events with equal profit were returned
C16_Witness ==
    /\ pc = "detected"
    /\ Len(matched_events) = 3
    /\ detect_arbitrages(<<matched_events[1]>>, filters, now) = <<>>
    /\ \E i, j \in DOMAIN arbitrages :
          /\ arbitrages[i].event_name # arbitrages[j].event_name
          /\ arbitrages[i].profit_percentage = arbitrages[j].profit_percentage

\* the normalized event name of quote i of the batch
NormalizedName(i) == _normalize_event_name(all_odds[i].event_name)

\* the quotes of a normalized batch under the name and group of its quote i
QuotesNamedAs(odds, i) ==
    SelectSeq(odds, LAMBDA q : /\ q.event_name = odds[i].event_name
                               /\ GroupKey(q) = GroupKey(odds[i]))

\* quotes i and j of a normalized batch are in one group under one name, or
\* under two similar names whose quotes are time-compatible
ClusteredIn(odds, i, j) ==
    /\ GroupKey(odds[i]) = GroupKey(odds[j])
    /\ \/ odds[i].event_name = odds[j].event_name
       \/ /\ IsSimilar(odds[i].event_name, odds[j].event_name)
          /\ _validate_time_compatibility(QuotesNamedAs(odds, i), QuotesNamedAs(odds, j))

Clustered(i, j) ==
    LET odds == CHOOSE o \in {_normalize_odds_data(all_odds)} : TRUE
    IN  ClusteredIn(odds, i, j)

\* no order of the batch can change what the matcher does with it: "similar and
\* time-compatible" is transitive among the names, one normalized name is the
\* most frequent of each cluster, and two quotes of one cluster for one market
\* and outcome name scraped at the same instant give the same bookmaker and odds
OrderCannotMatter ==
    LET q == CHOOSE o \in {_normalize_odds_data(all_odds)} : TRUE
        cluster == CHOOSE f \in {[i \in DOMAIN q |->
                                     {j \in DOMAIN q : ClusteredIn(q, i, j)}]} : TRUE
        named == [i \in DOMAIN q |-> {k \in cluster[i] : q[k].event_name = q[i].event_name}]
    IN  /\ \A i \in DOMAIN q : \A j \in cluster[i] : cluster[j] \subseteq cluster[i]
        /\ \A j \in DOMAIN q : \A k \in cluster[j] \ named[j] :
              Cardinality(named[j]) = Cardinality(named[k])
                  => \E l \in cluster[j] : Cardinality(named[l]) > Cardinality(named[j])
        /\ \A i \in DOMAIN q : \A j \in cluster[i] :
              (/\ _determine_market_type(q[i].market_name) = _determine_market_type(q[j].market_name)
               /\ q[i].line = q[j].line
               /\ OutcomeData(q[i]).name = OutcomeData(q[j]).name
               /\ q[i].scraped_at = q[j].scraped_at)
                  => OutcomeData(q[i]) = OutcomeData(q[j])

\* the batch in another order
Reordered(order) == [i \in DOMAIN all_odds |-> all_odds[order[i]]]

\* the clusters of quotes the matcher forms from a batch, as sets
ClustersOf(odds) ==
    LET grouped_odds == _group_odds_by_sport_league(_normalize_odds_data(odds))
        matched_groups ==
            Concat([g \in DOMAIN grouped_odds |-> MatchedGroups(grouped_odds[g].items)])
    IN  {Range(matched_groups[g]) : g \in DOMAIN matched_groups}

\* canonical name and, per market, the retained outcomes of each event, as sets
Retained(events) ==
    {[canonical_name |-> events[e].event.canonical_name,
      markets |-> {[key |-> events[e].markets[m].key,
                    outcomes |-> Range(events[e].markets[m].outcomes)] :
                       m \in DOMAIN events[e].markets}] : e \in DOMAIN events}

SameMatchInAnyOrder ==
    \A order \in Orders(Len(all_odds)) :
        /\ ClustersOf(Reordered(order)) = ClustersOf(all_odds)
        /\ Retained(match_events(Reordered(order))) = Retained(matched_events)

\* C17 as claimed: match_events forms the same clusters and returns the same
\* events (canonical names, retained outcome per market and outcome name) for
\* every order of the batch of quotes
C17_AnyOrderSameMatchedEvents == pc = "matched" => SameMatchInAnyOrder

\* C17 as amended: match_events forms the same clusters and returns the same
\* events for every order of a batch in which similarity is transitive, each
\* cluster has one most frequent name and no two different observations of one
\* outcome carry the same timestamp
C17_AnyOrderSameWithoutTies ==
    (pc = "matched" /\ OrderCannotMatter) => SameMatchInAnyOrder

\* an event was returned for a cluster of two different names, one of them the
\* most frequent, with an outcome observed at two instants by two bookmakers
C17_Witness ==
    /\ pc = "matched"
    /\ OrderCannotMatter
    /\ matched_events # <<>>
    /\ \E i, j \in DOMAIN all_odds :
          /\ Clustered(i, j)
          /\ NormalizedName(i) # NormalizedName(j)
    /\ \E i, j \in DOMAIN all_odds :
          /\ Clustered(i, j)
          /\ all_odds[i].outcome_name = all_odds[j].outcome_name
          /\ all_odds[i].scraped_at # all_odds[j].scraped_at
          /\ all_odds[i].bookmaker # all_odds[j].bookmaker

\* the calls whose detection awaits the scrapers
InFlight == {r \in DOMAIN requests : requests[r].pc = "scraping"}

\* C18: of the calls of get_cached_arbitrages that found the cache empty or
\* stale, at most one has a run_full_arbitrage_detection in flight at any time
C18_AtMostOneDetectionInFlight == Cardinality(InFlight) <= 1

\* bankroll, guaranteed_profit and stakes of every cached opportunity are the same
SameMoney(before, after) ==
    /\ Len(before) = Len(after)
    /\ \A i \in DOMAIN before :
          /\ after[i].bankroll = before[i].bankroll
          /\ after[i].guaranteed_profit = before[i].guaranteed_profit
          /\ after[i].stakes = before[i].stakes

C20_EveryLegFromAllowedBookmaker ==
    (pc = "detected" /\ filters.present /\ filters.bookmakers # <<>>) =>
        \A a \in DOMAIN arbitrages : \A i \in DOMAIN arbitrages[a].outcomes :
            arbitrages[a].outcomes[i].bookmaker \in Range(filters.bookmakers)

\* C21: when the filters carry a positive minimum absolute profit, every
\* opportunity returned, of a single market or a middle, has a guaranteed_profit
\* of at least that minimum
C21_GuaranteedProfitMeetsMinimum ==
    (pc = "detected" /\ filters.present /\ filters.min_profit # <<>>
                     /\ filters.min_profit[1] > 0) =>
        \A a \in DOMAIN arbitrages :
            arbitrages[a].guaranteed_profit >= 100 * filters.min_profit[1]

\* the max-age threshold of an event
MaxAge(event) == IF event.event.is_live THEN live_odds_max_age ELSE prematch_odds_max_age

\* quote q of the batch, under the normalized name normalized, is a fresh quote
\* of the event for the market and the outcome name of the leg, allowed by the
\* filters of the call
FreshQuoteFor(q, normalized, event, arb, leg) ==
    /\ normalized = event.event.canonical_name
    /\ q.sport = event.event.sport
    /\ q.league = event.event.league
    /\ _determine_market_type(_normalize_market_name(q.market_name)) = arb.market_type[1]
    /\ q.line = arb.line
    /\ Strip(q.outcome_name) = leg.name
    /\ now - q.scraped_at <= MaxAge(event)
    /\ (filters.present /\ filters.bookmakers # <<>>) => q.bookmaker \in Range(filters.bookmakers)

\* C22: for every leg of a single-market opportunity, no fresh quote of the
\* event for the same market type, line and outcome name, from a bookmaker that
\* no earlier leg has claimed, has strictly higher odds than the leg
C22_NoBetterQuoteFromFreeBookmaker ==
    pc = "detected" =>
        LET names == CHOOSE f \in {[i \in DOMAIN all_odds |->
                                       _normalize_event_name(all_odds[i].event_name)]} : TRUE
        IN  \A k \in SingleMarket : \A e \in DOMAIN matched_events :
                \A i \in DOMAIN arbitrages[k].outcomes : \A n \in DOMAIN all_odds :
                    (/\ arbitrages[k].event_name = matched_events[e].event.canonical_name
                     /\ FreshQuoteFor(all_odds[n], names[n], matched_events[e],
                                      arbitrages[k], arbitrages[k].outcomes[i])
                     /\ \A j \in 1..(i - 1) :
                           arbitrages[k].outcomes[j].bookmaker # all_odds[n].bookmaker)
                        => all_odds[n].odds <= arbitrages[k].outcomes[i].odds

\* the normalized event names of a cluster, each with its sport/league group
NamesOf(cluster) == {<<GroupKey(cluster[i]), cluster[i].event_name>> : i \in DOMAIN cluster}

\* the clusters hold every quote of the batch exactly once, and no two clusters
\* share a normalized event name of one sport/league group
ClustersPartitionBatch(clusters) ==
    /\ Counted(Concat(clusters)) = Counted(_normalize_odds_data(all_odds))
    /\ Len(Concat(clusters)) = Len(all_odds)
    /\ \A g, h \in DOMAIN clusters : g # h => NamesOf(clusters[g]) \cap NamesOf(clusters[h]) = {}

\* the clusters none of whose quotes OutcomeData rejects
MergeableClusters(clusters) ==
    {g \in DOMAIN clusters : \A i \in DOMAIN clusters[g] : OutcomeDataValid(clusters[g][i])}

\* C23 as claimed: every quote is put into exactly one cluster, no name into two,
\* and every cluster reaches the coverage filter as a MatchedEvent, so that no
\* quote is lost before the filter
C23_EveryQuoteInOneMatchedEvent ==
    pc = "matched" =>
        LET clusters == CHOOSE c \in {AllMatchedGroups} : TRUE
        IN  /\ ClustersPartitionBatch(clusters)
            /\ Len(MergedEvents(all_odds)) = Len(clusters)

\* C23 as amended: every quote is put into exactly one cluster and no name into
\* two; the clusters that reach the coverage filter as a MatchedEvent are those
\* none of whose quotes has odds outside [1.01, 1000]
C23_EveryQuoteInOneCluster ==
    pc = "matched" =>
        LET clusters == CHOOSE c \in {AllMatchedGroups} : TRUE
        IN  /\ ClustersPartitionBatch(clusters)
            /\ Len(MergedEvents(all_odds)) = Cardinality(MergeableClusters(clusters))

\* two similar names of one group were kept apart by the time guard, and the
\* second one seeded its own cluster
C23_Witness ==
    /\ pc = "matched"
    /\ Len(all_odds) = 2
    /\ GroupKey(all_odds[1]) = GroupKey(all_odds[2])
    /\ NormalizedName(1) # NormalizedName(2)
    /\ IsSimilar(NormalizedName(1), NormalizedName(2))
    /\ Len(AllMatchedGroups) = 2

\* the (sport, normalized league) pair of quote i, a missing value as "unknown"
SportLeaguePair(i) ==
    LET q == NormalizeOdds(all_odds[i])
    IN  << IF q.sport # <<>> THEN q.sport ELSE <<"unknown">>,
           IF q.league # <<>> THEN q.league ELSE <<"unknown">> >>

\* C24: two quotes whose (sport, normalized league) pairs differ are never
\* placed in the same MatchedEvent
C24_DifferentGroupsStaySeparate ==
    pc = "matched" =>
        \A i, j \in DOMAIN all_odds :
            SportLeaguePair(i) # SportLeaguePair(j) => ~InSameMatchedEvent(i, j)

\* the quotes of a cluster for the market and the outcome name of quote i
SameOutcomeAs(cluster, i) ==
    {j \in DOMAIN cluster :
        /\ _determine_market_type(cluster[j].market_name)
              = _determine_market_type(cluster[i].market_name)
        /\ cluster[j].line = cluster[i].line
        /\ OutcomeData(cluster[j]).name = OutcomeData(cluster[i]).name}

\* the first of the quotes for the outcome of quote i that carry the greatest
\* capture timestamp among them
FirstOfNewest(cluster, i) ==
    Min({j \in SameOutcomeAs(cluster, i) :
            \A k \in SameOutcomeAs(cluster, i) : cluster[k].scraped_at <= cluster[j].scraped_at})

\* the outcome a merged event retains for the market and outcome name of quote i
RetainedFor(event, cluster, i) ==
    LET key == get_market_key(_determine_market_type(cluster[i].market_name), cluster[i].line)
        held(m) == {o \in DOMAIN event.markets[m].outcomes :
                       event.markets[m].outcomes[o].name = OutcomeData(cluster[i]).name}
    IN  UNION {{event.markets[m].outcomes[o] : o \in held(m)} :
                  m \in {n \in DOMAIN event.markets : event.markets[n].key = key}}

\* C25: in the event merged from a cluster, the outcome retained for a market
\* and outcome name is the observation with the greatest capture timestamp among
\* the cluster's quotes for it, and the first of them when several carry that
\* timestamp: an older or equally old observation never replaces it
C25_NewestObservationRetained ==
    pc = "matched" =>
        LET clusters == CHOOSE c \in {AllMatchedGroups} : TRUE
        IN  \A g \in MergeableClusters(clusters) :
                LET event == _merge_event_group(clusters[g])[1]
                IN  \A i \in DOMAIN clusters[g] :
                        RetainedFor(event, clusters[g], i)
                            = {OutcomeData(clusters[g][FirstOfNewest(clusters[g], i)])}

\* an event was returned for a cluster in which a later quote for an outcome is
\* newer than an earlier one from another bookmaker
C25_Witness ==
    /\ pc = "matched"
    /\ matched_events # <<>>
    /\ \E g \in DOMAIN AllMatchedGroups :
          \E i, j \in DOMAIN AllMatchedGroups[g] :
              /\ i < j
              /\ j \in SameOutcomeAs(AllMatchedGroups[g], i)
              /\ AllMatchedGroups[g][j].scraped_at > AllMatchedGroups[g][i].scraped_at
              /\ AllMatchedGroups[g][j].bookmaker # AllMatchedGroups[g][i].bookmaker

\* C26, checked under SpecDetect: every leg of a single-market opportunity is an
\* observation whose age at detection time is at most the max-age threshold of
\* its event, the live one for a live event and the pre-match one otherwise
C26_SingleMarketLegsAreFresh ==
    pc = "detected" =>
        \A k \in SingleMarket : \A e \in DOMAIN matched_events :
            matched_events[e].event.canonical_name = arbitrages[k].event_name
            => \A i \in DOMAIN arbitrages[k].outcomes :
                   now - arbitrages[k].outcomes[i].last_seen <= MaxAge(matched_events[e])

\* an opportunity of a live event was returned whose legs are 5 s old, while
\* the event holds an observation older than the live threshold
C26_Witness ==
    /\ pc = "detected"
    /\ \E k \in SingleMarket : \E e \in DOMAIN matched_events :
          /\ matched_events[e].event.canonical_name = arbitrages[k].event_name
          /\ matched_events[e].event.is_live
          /\ \A i \in DOMAIN arbitrages[k].outcomes :
                now - arbitrages[k].outcomes[i].last_seen = 5
          /\ \E m \in DOMAIN matched_events[e].markets :
                \E o \in DOMAIN matched_events[e].markets[m].outcomes :
                    now - matched_events[e].markets[m].outcomes[o].last_seen
                        > live_odds_max_age

\* C27, checked under SpecDetect: every leg of a middle is an observation whose
\* age at detection time is at most the max-age threshold of its event
C27_MiddleLegsAreFresh ==
    pc = "detected" =>
        \A k \in Middles : \A e \in DOMAIN matched_events :
            matched_events[e].event.canonical_name = arbitrages[k].event_name
            => \A i \in DOMAIN arbitrages[k].outcomes :
                   now - arbitrages[k].outcomes[i].last_seen <= MaxAge(matched_events[e])

RECURSIVE SumOfAges(_)
\* the sum of the ages of the legs at detection time, in seconds
SumOfAges(legs) ==
    IF legs = <<>> THEN 0 ELSE (now - Head(legs).last_seen) + SumOfAges(Tail(legs))

\* score, in thousandths, is max(0, 1 - avg_age_seconds/300) of the legs rounded
\* to 3 decimals: it is 0 when the mean age is 300 s or more, and otherwise lies
\* within half a thousandth of 1 - avg_age_seconds/300
IsFreshnessOf(score, legs) ==
    LET span == 300 * Len(legs)
        left == span - SumOfAges(legs)
    IN  IF left <= 0 THEN score = 0
        ELSE /\ 2 * (1000 * left - score * span) <= span
             /\ 2 * (score * span - 1000 * left) <= span

\* C28, checked under SpecDetect: every returned opportunity has a
\* freshness_score in [0, 1] that is max(0, 1 - avg_age_seconds/300) of its legs
\* rounded to 3 decimals, and a market whose legs would give a score outside
\* [0, 1] yields no opportunity
C28_FreshnessScoreInRange ==
    pc = "detected" =>
        /\ \A k \in DOMAIN arbitrages :
              /\ arbitrages[k].freshness_score >= 0
              /\ arbitrages[k].freshness_score <= 1000
              /\ IsFreshnessOf(arbitrages[k].freshness_score, arbitrages[k].outcomes)
        /\ \A u \in FailingMarkets : \A k \in SingleMarket :
              ~IsMarketOf(arbitrages[k], matched_events[u[1]],
                          matched_events[u[1]].markets[u[2]])

\* a market whose legs are stamped later than the detection time yielded no
\* opportunity, and an opportunity with a score strictly between 0 and 1 was
\* returned
C28_Witness ==
    /\ pc = "detected"
    /\ FailingMarkets # {}
    /\ \E k \in DOMAIN arbitrages :
          /\ arbitrages[k].freshness_score > 0
          /\ arbitrages[k].freshness_score < 1000

C30_KeywordGivesItsMarketType ==
    (pc = "classify" /\ kind # "raw") =>
        \A k \in DOMAIN market_mapping :
            Lower(name) = market_mapping[k].key => kind = market_mapping[k].market_type

====
